---------------------------- MODULE Spec2Model ----------------------------
(***************************************************************************)
(* A model of the schema-driven XML transform of generate_xml:             *)
(*   generate_xml_logic1.py  (multi-table strategy, batch assembly)        *)
(*   generate_xml_logic2.py  (generic attribute-table strategy, streaming) *)
(*                                                                         *)
(* Paths ("/WCOData/Entities/Entity") are sequences of tag names, the      *)
(* empty sequence being the path "".  Python dicts whose iteration order   *)
(* the code relies on (constraints, name_map) are sequences of entries     *)
(* with dict update semantics; dicts that are only looked up (records,     *)
(* container_map) are functions whose DOMAIN is the set of keys.           *)
(***************************************************************************)
EXTENDS Integers, Sequences, FiniteSets, TLC

VARIABLES
    mode,            \* which entry point this behaviour runs
    pc,              \* position in that entry point
    xsd,             \* the schema document handed to parse_xsd
    constraints,     \* parse_xsd's first result (ordered dict as a sequence)
    name_map,        \* parse_xsd's second result (ordered dict of ordered dicts)
    container_map,   \* detect_container_map's result, or KeyError
    registered,      \* the assignments container_map[key] = val made so far
    data_obj,        \* the record handed to _build_single_entity
    out1,            \* subtree built by generate_xml_logic1._build_single_entity
    out2,            \* subtree built by generate_xml_logic2._build_single_entity
    df,              \* the tables loaded for the run (merged table, df_map)
    wco_data,        \* the per-section record lists of the multi-table strategy
    entities,        \* streaming: the root rows retained by the lookup filter
    processes,       \* worker processes of the Pool
    section,         \* batch: section being assembled
    window,          \* streaming: offset i of the current window
    args,            \* build_*_args of the current pool
    running,         \* indices of the tasks a worker is executing
    completed,       \* indices of the finished tasks, in completion order
    results,         \* results of the finished tasks, by submission index
    xml_strings,     \* the list starmap returned
    root_elem,       \* batch: the element tree being assembled
    file,            \* the output file: the markup tokens written so far
    storage,         \* the data directory: the rows held by each table folder
    error            \* the exception that ended the run, if one did

\* what a single _build_single_entity call reads and writes
buildVars == <<data_obj, out1, out2>>

tableVars == <<df, wco_data, entities>>

poolVars == <<processes, section, window, args, running, completed, results, xml_strings>>

outVars == <<root_elem, file>>

\* what is outside the transform (the folders) and how the run ended
runVars == <<storage, error>>

vars == <<mode, pc, xsd, constraints, name_map, container_map, registered,
          buildVars, tableVars, poolVars, outVars, runVars>>

(***************************************************************************)
(* Bounds of the model.                                                    *)
(***************************************************************************)
\* longest scalar sequence a record field holds
MaxItems == 3
\* largest finite minOccurs / maxOccurs offset used in the schemas
MaxOcc == 2
\* most root records of one classification in the merged table
MaxRows == 2

\* most worker processes of a Pool
MaxProcs == 2

\* rows per window of the streaming strategy (25000 in the source)
chunk_size == 2

\* float('inf'), the maxOccurs of "unbounded"
Inf == -1

(***************************************************************************)
(* Tag names and str.lower().                                              *)
(***************************************************************************)
Lower(s) ==
    CASE s = "WCOData"            -> "wcodata"
      [] s = "Entities"           -> "entities"
      [] s = "Entity"             -> "entity"
      [] s = "EntityGUID"         -> "entityguid"
      [] s = "EntityAliases"      -> "entityaliases"
      [] s = "EntityAlias"        -> "entityalias"
      [] s = "EntityAddress"      -> "entityaddress"
      [] s = "City"               -> "city"
      [] s = "AdditionalSegments" -> "additionalsegments"
      [] s = "Relationships"      -> "relationships"
      [] s = "Relationship"       -> "relationship"
      [] s = "EntityDeletes"      -> "entitydeletes"
      [] s = "EntityDelete"       -> "entitydelete"
      [] s = "Root"               -> "root"
      [] s = "Docs"               -> "docs"
      [] s = "Doc"                -> "doc"
      [] s = "Group"              -> "group"
      [] s = "EntitySOE"          -> "entitysoe"
      [] s = "EntitySOEDomain"    -> "entitysoedomain"
      [] s = "EntitySOESubcategory" -> "entitysoesubcategory"
      [] OTHER                    -> s

(***************************************************************************)
(* Ordered dicts: sequences of [key, val], in insertion order.             *)
(***************************************************************************)
OHas(d, k) == \E i \in 1..Len(d) : d[i].key = k

OGet(d, k) == d[CHOOSE i \in 1..Len(d) : d[i].key = k].val

\* d[k] = v: an existing key keeps its position
OSet(d, k, v) ==
    IF OHas(d, k) THEN [i \in 1..Len(d) |-> IF d[i].key = k THEN [key |-> k, val |-> v] ELSE d[i]]
    ELSE Append(d, [key |-> k, val |-> v])

\* d.pop(k, None): the dict without the key
ODel(d, k) == SelectSeq(d, LAMBDA e : e.key # k)

\* the concatenation of a list of lists
RECURSIVE Flatten(_)
Flatten(strs) == IF strs = <<>> THEN <<>> ELSE Head(strs) \o Flatten(Tail(strs))

(***************************************************************************)
(* The schema document: nodes of the XSD tree.  An attribute is <<>> when  *)
(* absent and <<v>> when present; maxOccurs="unbounded" is <<Inf>>.        *)
(***************************************************************************)
Node(kind, name, mn, mx, kids) ==
    [kind |-> kind, name |-> name, minOccurs |-> mn, maxOccurs |-> mx, kids |-> kids]

El(name, mn, mx, kids) == Node("element", <<name>>, mn, mx, kids)

Cx(kids) == Node("complexType", <<>>, <<>>, <<>>,
                 <<Node("sequence", <<>>, <<>>, <<>>, kids)>>)

\* int(child.get('minOccurs', '0'))
MinVal(node) == IF node.minOccurs = <<>> THEN 0 ELSE node.minOccurs[1]

\* float('inf') if child.get('maxOccurs', 'unbounded') is unbounded else int(...)
MaxVal(node) == IF node.maxOccurs = <<>> THEN Inf ELSE node.maxOccurs[1]

Info(node) == [minOccurs |-> MinVal(node), maxOccurs |-> MaxVal(node), name |-> node.name[1]]

\* root.findall('.//xs:element'): every element declaration, in document order
RECURSIVE FindAllElements(_)
FindAllKids(kids) ==
    LET RECURSIVE Go(_)
        Go(i) == IF i > Len(kids) THEN <<>>
                 ELSE (IF kids[i].kind = "element" THEN <<kids[i]>> ELSE <<>>)
                      \o FindAllElements(kids[i]) \o Go(i + 1)
    IN Go(1)

FindAllElements(node) == FindAllKids(node.kids)

\* The dict left by the assignments d[ev[1].key] = ev[1].val, d[ev[2].key] = ...
\* made in this order: keys in order of first assignment, each with the value
\* of its last assignment.
RECURSIVE FirstAssignments(_, _)
FirstAssignments(ev, i) ==
    IF i > Len(ev) THEN <<>>
    ELSE (IF \E j \in 1..(i - 1) : ev[j].key = ev[i].key THEN <<>> ELSE <<i>>)
         \o FirstAssignments(ev, i + 1)

LastAssigned(ev, k) ==
    ev[CHOOSE i \in 1..Len(ev) :
          /\ ev[i].key = k
          /\ \A j \in (i + 1)..Len(ev) : ev[j].key # k].val

ODictOf(ev) ==
    LET firsts == FirstAssignments(ev, 1) IN
    [n \in 1..Len(firsts) |->
        [key |-> ev[firsts[n]].key, val |-> LastAssigned(ev, ev[firsts[n]].key)]]

\* One pass of the element branch (lines 114-122 / 129-137): the two
\* assignments constraints[full_path] = {...} and
\* name_map[current_path][ename.lower()] = ename.
Declared(child, current_path) ==
    [full_path |-> Append(current_path, child.name[1]), info |-> Info(child),
     current_path |-> current_path, lower |-> Lower(child.name[1]),
     name |-> child.name[1]]

\* parse_xsd.recurse_elements over node.kids[i..]: the assignments it makes,
\* in execution order.  (Every element declaration of the schemas modelled
\* has a name; a declaration without one is skipped here.)
RECURSIVE recurse_from(_, _, _)
recurse_from(node, i, current_path) ==
    IF i > Len(node.kids) THEN <<>>
    ELSE LET child == node.kids[i] IN
         (IF child.kind = "element" /\ child.name # <<>>
          THEN << Declared(child, current_path) >>
               \o recurse_from(child, 1, Append(current_path, child.name[1]))
          ELSE IF child.kind \in {"complexType", "sequence", "all", "choice"}
          THEN recurse_from(child, 1, current_path)
          ELSE <<>>)
         \o recurse_from(node, i + 1, current_path)

recurse_elements(node, current_path) == recurse_from(node, 1, current_path)

\* the loop of parse_xsd over tops[i..]: every element found by findall is
\* handled as a top-level element
RECURSIVE parse_tops(_, _)
parse_tops(tops, i) ==
    IF i > Len(tops) THEN <<>>
    ELSE (IF tops[i].name # <<>>
          THEN << Declared(tops[i], <<>>) >> \o recurse_elements(tops[i], <<tops[i].name[1]>>)
          ELSE <<>>)
         \o parse_tops(tops, i + 1)

\* parse_xsd: [c |-> constraints, n |-> name_map]
parse_xsd(root) ==
    LET ev == parse_tops(FindAllElements(root), 1)
        byPath == ODictOf([i \in 1..Len(ev) |-> [key |-> ev[i].current_path, val |-> 0]])
    IN [c |-> ODictOf([i \in 1..Len(ev) |-> [key |-> ev[i].full_path, val |-> ev[i].info]]),
        n |-> [p \in 1..Len(byPath) |->
                 [key |-> byPath[p].key,
                  val |-> ODictOf(SelectSeq([i \in 1..Len(ev) |->
                                               [key |-> ev[i].lower, val |-> ev[i].name,
                                                at |-> ev[i].current_path]],
                                            LAMBDA e : e.at = byPath[p].key))]]]

(***************************************************************************)
(* detect_container_map.                                                   *)
(***************************************************************************)
KeyError == [error |-> "KeyError"]

\* polars.exceptions.ColumnNotFoundError
ColumnNotFoundError == [error |-> "ColumnNotFoundError"]

\* "/".join(full_path.split("/")[:-1])
ParentPath(full_path) == SubSeq(full_path, 1, Len(full_path) - 1)

\* children_by_parent[parent_path], in constraints order
ChildList(cons, parent_path) ==
    SelectSeq(cons, LAMBDA e : ParentPath(e.key) = parent_path)

\* child_info['maxOccurs'] == float('inf') or child_info['maxOccurs'] > 1
Repeats(info) == info.maxOccurs = Inf \/ info.maxOccurs > 1

\* the parent paths of children_by_parent, in first-insertion order
ParentsInOrder(cons) ==
    LET RECURSIVE Go(_, _)
        Go(i, acc) ==
            IF i > Len(cons) THEN acc
            ELSE LET p == ParentPath(cons[i].key) IN
                 Go(i + 1, IF \E j \in 1..Len(acc) : acc[j] = p THEN acc ELSE Append(acc, p))
    IN Go(1, <<>>)

\* a parent qualifies: exactly one child, and that child repeats
Qualifies(cons, parent_path) ==
    LET child_list == ChildList(cons, parent_path) IN
    Len(child_list) = 1 /\ Repeats(child_list[1].val)

\* The loop of lines 157-164: the assignments container_map[key] = val it makes,
\* in order, and whether constraints[parent_path] raised KeyError.
detect_registrations(cons) ==
    LET parents == ParentsInOrder(cons)
        RECURSIVE Go(_, _)
        Go(i, ev) ==
            IF i > Len(parents) THEN [ev |-> ev, raised |-> FALSE]
            ELSE IF ~Qualifies(cons, parents[i]) THEN Go(i + 1, ev)
            ELSE IF ~OHas(cons, parents[i]) THEN [ev |-> ev, raised |-> TRUE]
            ELSE LET child_info == ChildList(cons, parents[i])[1].val
                     key == Lower(child_info.name)
                 IN Go(i + 1, Append(ev, [key |-> key,
                                          val |-> <<OGet(cons, parents[i]).name, key>>]))
    IN Go(1, <<>>)

\* the dict holding the last value assigned to each key
DictOfAssignments(ev) ==
    [k \in {ev[i].key : i \in 1..Len(ev)} |-> LastAssigned(ev, k)]

detect_container_map(cons) ==
    LET r == detect_registrations(cons) IN
    IF r.raised THEN KeyError ELSE DictOfAssignments(r.ev)

(***************************************************************************)
(* Python values held by records.  Every value has the same fields:        *)
(*   k      "none" | "str" | "int" | "bool" | "float" | "list" | "dict"    *)
(*   s      the characters of a str                                        *)
(*   n      the number of an int / float, 0 or 1 for a bool                *)
(*   items  the items of a list                                            *)
(*   d      <<f>> for a dict f (a function whose DOMAIN is its key set)    *)
(***************************************************************************)
VNone == [k |-> "none", s |-> "", n |-> 0, items |-> <<>>, d |-> <<>>]

VStr(s) == [k |-> "str", s |-> s, n |-> 0, items |-> <<>>, d |-> <<>>]

VInt(n) == [k |-> "int", s |-> "", n |-> n, items |-> <<>>, d |-> <<>>]

VBool(b) == [k |-> "bool", s |-> "", n |-> IF b THEN 1 ELSE 0, items |-> <<>>, d |-> <<>>]

VFloat(n) == [k |-> "float", s |-> "", n |-> n, items |-> <<>>, d |-> <<>>]

VList(items) == [k |-> "list", s |-> "", n |-> 0, items |-> items, d |-> <<>>]

VDict(f) == [k |-> "dict", s |-> "", n |-> 0, items |-> <<>>, d |-> <<f>>]

\* bool(value): what "if value:" / "if not value:" test
Truthy(v) ==
    CASE v.k = "none"  -> FALSE
      [] v.k = "str"   -> v.s # ""
      [] v.k = "list"  -> v.items # <<>>
      [] v.k = "dict"  -> DOMAIN v.d[1] # {}
      [] OTHER         -> v.n # 0

\* str(value) of a scalar
Str(v) ==
    CASE v.k = "str"   -> v.s
      [] v.k = "none"  -> "None"
      [] v.k = "bool"  -> IF v.n = 1 THEN "True" ELSE "False"
      [] v.k = "int"   -> (CASE v.n = 0 -> "0" [] v.n = 1 -> "1" [] v.n = 2 -> "2"
                             [] v.n = 7 -> "7" [] OTHER -> "<int>")
      [] v.k = "float" -> (CASE v.n = 100 -> "100.0" [] v.n = 0 -> "0.0" [] OTHER -> "<float>")
      [] OTHER         -> "<repr>"

\* data_obj.get(key)
DGet(dct, key) == IF key \in DOMAIN dct THEN dct[key] ELSE VNone

(***************************************************************************)
(* lxml elements: text is <<>> for None and <<s>> for a string; attrs is   *)
(* a sequence of <<name, value>>.                                          *)
(***************************************************************************)
Elem(tag, attrs, text, kids) == [tag |-> tag, attrs |-> attrs, text |-> text, kids |-> kids]

\* etree.SubElement(parent, tag) with nothing set
Empty(tag) == Elem(tag, <<>>, <<>>, <<>>)

\* None if (item is None or item == "") else str(item)
TextOf(item) == IF item.k = "none" \/ (item.k = "str" /\ item.s = "") THEN <<>> ELSE <<Str(item)>>

\* lxml accepts only XML-compatible text: a str holding a NUL byte (written
\* "\\x00" here) makes the assignment elem.text = ... raise ValueError
Rejected(item) == item.k = "str" /\ item.s = "\\x00"

ValueError == [error |-> "ValueError"]

\* child_elem = etree.SubElement(parent_xml, real_tag); child_elem.text = ...
\* Where the assignment raises, the element stands for the exception leaving
\* populate_children: what is built after it is never seen.
WithText(real_tag, item) ==
    IF Rejected(item) THEN Elem("raise", <<>>, <<"ValueError">>, <<>>)
    ELSE Elem(real_tag, <<>>, TextOf(item), <<>>)

\* an exception left the construction of these children
RECURSIVE Raised(_)
Raised(kids) ==
    \E i \in 1..Len(kids) : kids[i].tag = "raise" \/ Raised(kids[i].kids)

\* child_elem = etree.SubElement(parent_xml, real_tag) followed by the
\* recursive call that fills it (kids)
SingleChild_NotFilled(real_tag, kids) == << Empty(real_tag) >>

SingleChild(real_tag, kids) == << Elem(real_tag, <<>>, <<>>, kids) >>

\* elem.text = value, for the str / None the auxiliary rows hold
RawText(v) == IF v.k = "none" THEN <<>> ELSE <<Str(v)>>

(***************************************************************************)
(* Static configuration of the auxiliary segment tables, in dict order.    *)
(***************************************************************************)
additional_segments_tables_simple ==
    << [table |-> "associatedentity",   guid_col |-> "associatedentityguid",   type |-> "Associated Entity"],
       [table |-> "fatcatreginst",      guid_col |-> "fatcatreginstguid",      type |-> "FATCA Reg Inst"],
       [table |-> "marijuanaregbus",    guid_col |-> "marijuanaregbusguid",    type |-> "Marijuana Reg Bus"],
       [table |-> "ownershiporcontrol", guid_col |-> "ownershiporcontrolguid", type |-> "Ownership Or Control"],
       [table |-> "swiftbicentity",     guid_col |-> "swiftbicentityguid",     type |-> "SWIFT BIC Entity"] >>

additional_segments_tables_mutifield ==
    << [table |-> "ihsofacvessels", guid_col |-> "ihsofacvesselsguid", type |-> "IHS OFAC Vessels"],
       [table |-> "ihsregvessels",  guid_col |-> "ihsregvesselsguid",  type |-> "IHS Reg Vessels"],
       [table |-> "uaemsb",         guid_col |-> "uaemsbguid",         type |-> "UAE MSB"],
       [table |-> "usmsb",          guid_col |-> "usmsbguid",          type |-> "US MSB"] >>

\* table_name.replace('_', ' ').title()
Title(table_name) ==
    CASE table_name = "ihsofacvessels" -> "Ihsofacvessels"
      [] table_name = "ihsregvessels"  -> "Ihsregvessels"
      [] table_name = "uaemsb"         -> "Uaemsb"
      [] table_name = "usmsb"          -> "Usmsb"
      [] OTHER                         -> table_name

FieldElem(name, value) ==
    Elem("Field", <<>>, <<>>,
         << Elem("DerivedName", <<>>, <<name>>, <<>>),
            Elem("DerivedValue", <<>>, RawText(value), <<>>) >>)

\* data is the list held by the record; conf the table's configuration
create_single_segment_for_sigle_fields(data, conf) ==
    LET row == data.items[1].d[1] IN
    Elem("Segment", << <<"Type", conf.type>> >>, <<>>,
         << Elem("Record", << <<"GUID", Str(row[conf.guid_col])>> >>, <<>>,
                 << Elem("LastUpdated", <<>>, RawText(row["lastupdated"]), <<>>),
                    FieldElem("Source Name", row["source_name"]) >>) >>)

\* a multi-field builder that reads the first row only
create_single_segment_FirstRowOnly(data, conf) ==
    create_single_segment_for_sigle_fields(data, conf)

create_single_segment_for_mutifield(data, conf) ==
    LET data_first == data.items[1].d[1] IN
    Elem("Segment", << <<"Type", conf.type>> >>, <<>>,
         << Elem("Record", << <<"GUID", Str(data_first[conf.guid_col])>> >>, <<>>,
                 << Elem("LastUpdated", <<>>, RawText(data_first["lastupdated"]), <<>>) >>
                 \o [i \in 1..Len(data.items) |->
                        FieldElem(Title(conf.table), data.items[i].d[1]["source_name"])]) >>)

\* the segments with the multi-field tables visited before the single-field ones
Segments_MultiFieldFirst(rec) ==
    LET Of(confs, build(_, _)) ==
            [i \in 1..Len(confs) |->
                IF Truthy(DGet(rec, confs[i].table))
                THEN << build(DGet(rec, confs[i].table), confs[i]) >> ELSE <<>>]
    IN Flatten(Of(additional_segments_tables_mutifield, create_single_segment_for_mutifield))
       \o Flatten(Of(additional_segments_tables_simple,
                     create_single_segment_for_sigle_fields))

\* the Segment children of AdditionalSegments for one record (logic1 lines 354-360)
Segments(rec) ==
    LET RECURSIVE Simple(_)
        Simple(i) ==
            IF i > Len(additional_segments_tables_simple) THEN <<>>
            ELSE LET conf == additional_segments_tables_simple[i] IN
                 (IF Truthy(DGet(rec, conf.table))
                  THEN <<create_single_segment_for_sigle_fields(DGet(rec, conf.table), conf)>>
                  ELSE <<>>) \o Simple(i + 1)
        RECURSIVE Multi(_)
        Multi(i) ==
            IF i > Len(additional_segments_tables_mutifield) THEN <<>>
            ELSE LET conf == additional_segments_tables_mutifield[i] IN
                 (IF Truthy(DGet(rec, conf.table))
                  THEN <<create_single_segment_for_mutifield(DGet(rec, conf.table), conf)>>
                  ELSE <<>>) \o Multi(i + 1)
    IN Simple(1) \o Multi(1)

(***************************************************************************)
(* populate_children of generate_xml_logic1: the children appended to      *)
(* parent_xml (which every caller passes in empty).                        *)
(***************************************************************************)
\* min_occ, max_occ of full_path (fallback: optional, unbounded)
Occ(cons, full_path) ==
    IF OHas(cons, full_path)
    THEN [min |-> OGet(cons, full_path).minOccurs, max |-> OGet(cons, full_path).maxOccurs]
    ELSE [min |-> 0, max |-> Inf]

\* a rendering that keeps every item, whatever maxOccurs says
Used_NoTruncation(ct, max_occ) == ct

\* a padding loop that never runs
Padding_NoFill(ct, min_occ, real_tag) == <<>>

\* the declared children taken in reverse
KnownMap_Reversed(nm, parent_path) ==
    IF OHas(nm, parent_path)
    THEN LET m == OGet(nm, parent_path) IN [i \in 1..Len(m) |-> m[Len(m) + 1 - i]]
    ELSE <<>>

\* used = ct if max_occ == float("inf") else min(ct, max_occ)
Used(ct, max_occ) == IF max_occ = Inf THEN ct ELSE IF ct < max_occ THEN ct ELSE max_occ

\* the padding loop: range(min_occ - ct) when ct < min_occ
Padding(ct, min_occ, real_tag) ==
    IF ct < min_occ THEN [j \in 1..(min_occ - ct) |-> Empty(real_tag)] ELSE <<>>

\* name_map.get(parent_path, {})
KnownMap(nm, parent_path) == IF OHas(nm, parent_path) THEN OGet(nm, parent_path) ELSE <<>>

RECURSIVE populate_children(_, _, _, _, _)
populate_children(parent_path, rec, cons, nm, cm) ==
    LET known_map == KnownMap(nm, parent_path)
        ForChild(i) ==
            LET child_lower == known_map[i].key
                real_tag    == known_map[i].val
                full_path   == Append(parent_path, real_tag)
                o           == Occ(cons, full_path)
            IN
            IF child_lower = "additionalsegments"
            THEN << Elem("AdditionalSegments", <<>>, <<>>, Segments(rec)) >>
            ELSE IF child_lower \notin DOMAIN rec
            THEN IF child_lower \in DOMAIN cm
                 THEN [j \in 1..o.min |-> Empty(real_tag)]
                 ELSE SingleChild(real_tag, populate_children(full_path, rec, cons, nm, cm))
            ELSE LET value == rec[child_lower] IN
                 IF value.k = "list"
                 THEN LET ct   == Len(value.items)
                          used == Used(ct, o.max)
                      IN [j \in 1..used |->
                             LET item == value.items[j] IN
                             IF item.k = "dict"
                             THEN Elem(real_tag, <<>>, <<>>,
                                       populate_children(full_path, item.d[1], cons, nm, cm))
                             ELSE WithText(real_tag, item)]
                         \o Padding(ct, o.min, real_tag)
                 ELSE IF value.k = "dict"
                 THEN << Elem(real_tag, <<>>, <<>>,
                              populate_children(full_path, value.d[1], cons, nm, cm)) >>
                 ELSE IF ~Truthy(value) THEN <<>>
                 ELSE << WithText(real_tag, value) >>
        RECURSIVE Go(_)
        Go(i) == IF i > Len(known_map) THEN <<>> ELSE ForChild(i) \o Go(i + 1)
    IN Go(1)

\* constraints.get(path, {}).get("name", default)
TagOf(cons, path, default) == IF OHas(cons, path) THEN OGet(cons, path).name ELSE default

\* _build_single_entity / _build_single_relationship of generate_xml_logic1,
\* before etree.tostring
build_single_1(rec, path, default, cons, nm, cm) ==
    LET kids == populate_children(path, rec, cons, nm, cm) IN
    IF Raised(kids) THEN ValueError      \* no try in the module: the exception propagates
    ELSE Elem(TagOf(cons, path, default), <<>>, <<>>, kids)

(***************************************************************************)
(* populate_children of generate_xml_logic2.                               *)
(***************************************************************************)
\* json.loads(value): [ok |-> parsed?, val |-> the parsed value]
JsonLoads(v) ==
    IF v.k # "str" THEN [ok |-> FALSE, val |-> v]          \* TypeError
    ELSE CASE v.s = "true"   -> [ok |-> TRUE, val |-> VBool(TRUE)]
           [] v.s = "false"  -> [ok |-> TRUE, val |-> VBool(FALSE)]
           [] v.s = "null"   -> [ok |-> TRUE, val |-> VNone]
           [] v.s = "0"      -> [ok |-> TRUE, val |-> VInt(0)]
           [] v.s = "7"      -> [ok |-> TRUE, val |-> VInt(7)]
           [] v.s = "1e2"    -> [ok |-> TRUE, val |-> VFloat(100)]
           [] v.s = "[1, 2]" -> [ok |-> TRUE, val |-> VList(<<VInt(1), VInt(2)>>)]
           [] OTHER          -> [ok |-> FALSE, val |-> v]  \* JSONDecodeError

\* lines 270-289: the value of child_lower, all_data first, then data_obj
Resolve2(rec, all_data, child_lower) ==
    LET v0 == IF child_lower \in DOMAIN all_data
              THEN LET a == all_data[child_lower] IN
                   IF Truthy(a) THEN JsonLoads(a).val ELSE a
              ELSE VNone
    IN IF ~Truthy(v0) /\ child_lower \in DOMAIN rec THEN rec[child_lower] ELSE v0

RECURSIVE populate_children2(_, _, _, _, _, _)
populate_children2(parent_path, rec, cons, nm, cm, all_data) ==
    LET known_map == KnownMap(nm, parent_path)
        ForChild(i) ==
            LET child_lower == known_map[i].key
                real_tag    == known_map[i].val
                full_path   == Append(parent_path, real_tag)
                o           == Occ(cons, full_path)
            IN
            IF child_lower = "additionalsegments"
            THEN << Empty("AdditionalSegments") >>
            ELSE IF child_lower \notin DOMAIN rec
            THEN IF child_lower \in DOMAIN cm
                 THEN [j \in 1..o.min |-> Empty(real_tag)]
                 ELSE SingleChild(real_tag,
                                  populate_children2(full_path, rec, cons, nm, cm, all_data))
            ELSE LET value == Resolve2(rec, all_data, child_lower) IN
                 IF value.k = "list"
                 THEN LET ct   == Len(value.items)
                          used == Used(ct, o.max)
                          \* the first item whose text assignment raises (0: none);
                          \* the except of line 319 then ends the field
                          stop == IF \E j \in 1..used : Rejected(value.items[j])
                                  THEN CHOOSE j \in 1..used :
                                          /\ Rejected(value.items[j])
                                          /\ \A h \in 1..(j - 1) : ~Rejected(value.items[h])
                                  ELSE 0
                          Child(j) ==
                             LET item == value.items[j] IN
                             IF item.k = "dict"
                             THEN Elem(real_tag, <<>>, <<>>,
                                       populate_children2(full_path, item.d[1], cons, nm, cm,
                                                          all_data))
                             ELSE Elem(real_tag, <<>>, TextOf(item), <<>>)
                      IN IF stop = 0
                         THEN [j \in 1..used |-> Child(j)] \o Padding(ct, o.min, real_tag)
                         ELSE [j \in 1..stop |-> IF j = stop THEN Empty(real_tag) ELSE Child(j)]
                 ELSE IF value.k = "dict"
                 THEN << Elem(real_tag, <<>>, <<>>,
                              populate_children2(full_path, value.d[1], cons, nm, cm, all_data)) >>
                 ELSE IF ~Truthy(value) THEN <<>>
                 ELSE IF Rejected(value) THEN << Empty(real_tag) >>    \* except: pass
                 ELSE << Elem(real_tag, <<>>, TextOf(value), <<>>) >>
        RECURSIVE Go(_)
        Go(i) == IF i > Len(known_map) THEN <<>> ELSE ForChild(i) \o Go(i + 1)
    IN Go(1)

\* _build_single_entity of generate_xml_logic2, before etree.tostring
build_single_2(rec, path, cons, nm, cm) ==
    Elem(TagOf(cons, path, "Entity"), <<>>, <<>>,
         populate_children2(path, rec, cons, nm, cm, rec))

(***************************************************************************)
(* Serialized XML: a string is the sequence of its markup tokens.          *)
(*   [t |-> "open", v |-> tag, attrs]   <tag a="..">                       *)
(*   [t |-> "close", v |-> tag]         </tag>                             *)
(*   [t |-> "empty", v |-> tag, attrs]  <tag a=".."/>                      *)
(*   [t |-> "text", v |-> characters]                                      *)
(***************************************************************************)
Tok(t, v, attrs) == [t |-> t, v |-> v, attrs |-> attrs]

\* etree.tostring(elem, encoding="unicode")
RECURSIVE tostring(_)
tostring(e) ==
    LET RECURSIVE Kids(_)
        Kids(i) == IF i > Len(e.kids) THEN <<>> ELSE tostring(e.kids[i]) \o Kids(i + 1)
    IN IF e.text = <<>> /\ e.kids = <<>>
       THEN << Tok("empty", e.tag, e.attrs) >>
       ELSE << Tok("open", e.tag, e.attrs) >>
            \o (IF e.text = <<>> THEN <<>> ELSE << Tok("text", e.text[1], <<>>) >>)
            \o Kids(1)
            \o << Tok("close", e.tag, <<>>) >>

ParseError == [error |-> "XMLSyntaxError"]

\* One element read from toks at position i: [ok, elem, next].
RECURSIVE ParseElem(_, _)
ParseElem(toks, i) ==
    IF i > Len(toks) THEN [ok |-> FALSE, elem |-> Empty(""), next |-> i]
    ELSE IF toks[i].t = "empty"
    THEN [ok |-> TRUE, elem |-> Elem(toks[i].v, toks[i].attrs, <<>>, <<>>), next |-> i + 1]
    ELSE IF toks[i].t # "open" THEN [ok |-> FALSE, elem |-> Empty(""), next |-> i]
    ELSE LET hasText == i + 1 <= Len(toks) /\ toks[i + 1].t = "text"
             text    == IF hasText THEN <<toks[i + 1].v>> ELSE <<>>
             RECURSIVE Kids(_, _)
             Kids(j, acc) ==
                 IF j > Len(toks) THEN [ok |-> FALSE, kids |-> acc, next |-> j]
                 ELSE IF toks[j].t = "close"
                 THEN [ok |-> toks[j].v = toks[i].v, kids |-> acc, next |-> j + 1]
                 ELSE LET r == ParseElem(toks, j) IN
                      IF r.ok THEN Kids(r.next, Append(acc, r.elem))
                      ELSE [ok |-> FALSE, kids |-> acc, next |-> j]
             k == Kids(IF hasText THEN i + 2 ELSE i + 1, <<>>)
         IN [ok |-> k.ok, elem |-> Elem(toks[i].v, toks[i].attrs, text, k.kids),
             next |-> k.next]

\* etree.fromstring(s): the element, or ParseError
fromstring(toks) ==
    LET r == ParseElem(toks, 1) IN
    IF r.ok /\ r.next = Len(toks) + 1 THEN r.elem ELSE ParseError

(***************************************************************************)
(* Inputs: schema documents.                                               *)
(***************************************************************************)
\* the (minOccurs, maxOccurs) attribute pairs with minOccurs <= maxOccurs;
\* <<>> is an absent attribute
OccPairs ==
    { <<mn, mx>> \in ({<<>>} \cup {<<n>> : n \in 0..MaxOcc})
                     \X ({<<>>, <<Inf>>} \cup {<<n>> : n \in {1, MaxOcc + 1}}) :
        mx \in {<<>>, <<Inf>>} \/ (IF mn = <<>> THEN 0 ELSE mn[1]) <= mx[1] }

\* WCOData > Entities > Entity > (EntityGUID, EntityAliases > EntityAlias,
\* EntityAddress > City, AdditionalSegments); Relationships > Relationship >
\* EntityGUID.  occ is the occurrence pair of EntityGUID, EntityAlias and
\* EntityAddress, seg that of AdditionalSegments.
WcoSchemaWith(occ, seg) ==
    Node("schema", <<>>, <<>>, <<>>, <<
      El("WCOData", <<>>, <<>>, << Cx(<<
        El("Entities", <<1>>, <<1>>, << Cx(<<
          El("Entity", <<0>>, <<Inf>>, << Cx(<<
            El("EntityGUID", occ[1], occ[2], <<>>),
            El("EntityAliases", <<0>>, <<1>>,
               << Cx(<< El("EntityAlias", occ[1], occ[2], <<>>) >>) >>),
            El("EntityAddress", occ[1], occ[2], << Cx(<< El("City", <<>>, <<1>>, <<>>) >>) >>),
            El("AdditionalSegments", seg[1], seg[2], <<>>)
          >>) >>)
        >>) >>),
        El("Relationships", <<1>>, <<1>>, << Cx(<<
          El("Relationship", <<0>>, <<Inf>>, << Cx(<<
            El("EntityGUID", <<1>>, <<1>>, <<>>)
          >>) >>)
        >>) >>)
      >>) >>)
    >>)

\* WCOData > Entities > Entity > (EntityGUID, EntityAliases > EntityAlias,
\* EntityAddress > (City, EntityAlias), AdditionalSegments): the tag EntityAlias
\* declared under a parent of its own and under a parent with two children
SharedNameSchema(occ) ==
    Node("schema", <<>>, <<>>, <<>>, <<
      El("WCOData", <<>>, <<>>, << Cx(<<
        El("Entities", <<1>>, <<1>>, << Cx(<<
          El("Entity", <<0>>, <<Inf>>, << Cx(<<
            El("EntityGUID", <<1>>, <<1>>, <<>>),
            El("EntityAliases", <<0>>, <<1>>,
               << Cx(<< El("EntityAlias", occ[1], occ[2], <<>>) >>) >>),
            El("EntityAddress", <<0>>, <<1>>,
               << Cx(<< El("City", <<>>, <<1>>, <<>>),
                        El("EntityAlias", occ[1], occ[2], <<>>) >>) >>),
            El("AdditionalSegments", <<0>>, <<1>>, <<>>)
          >>) >>)
        >>) >>)
      >>) >>)
    >>)

\* the same with AdditionalSegments declared optional and single
WcoSchema(occ) == WcoSchemaWith(occ, << <<0>>, <<1>> >>)

PopSchemas == { WcoSchema(occ) : occ \in OccPairs }

(***************************************************************************)
(* Inputs: records.                                                        *)
(***************************************************************************)
\* the i-th scalar item of a sequence
ItemStr(i) == CASE i = 1 -> "a" [] i = 2 -> "b" [] i = 3 -> "c" [] i = 4 -> "d" [] OTHER -> "e"

\* a sequence of n distinct scalars
ScalarList(n) == VList([i \in 1..n |-> VStr(ItemStr(i))])

Scalars == { VNone, VStr(""), VStr("v"), VInt(0) }

NestedDicts == { <<>>, ("city" :> VStr("c")), ("city" :> VNone) }

\* one row of an auxiliary table
AuxRow(guid_col, n) ==
    VDict((guid_col :> VStr("G-" \o ToString(n)))
          @@ ("lastupdated" :> VStr("2024-01-0" \o ToString(n)))
          @@ ("source_name" :> VStr(ItemStr(n))))

\* the choices of one key: absent, or present with one of vals
Field(key, vals) == { <<>> } \cup { (key :> v) : v \in vals }

\* merge_tables, lines 251-261: the nested-list column the left join leaves on
\* a root row whose matching child rows are rows (null when none matched)
MergedColumn(rows) == IF rows = <<>> THEN VNone ELSE VList([i \in 1..Len(rows) |-> VDict(rows[i])])

PopRecords ==
    { g @@ a @@ d @@ c @@ x :
        g \in Field("entityguid", Scalars \cup { ScalarList(2) }),
        a \in Field("entityalias",
                    { MergedColumn(<<>>), MergedColumn(<< ("entityguid" :> VStr("v")) >>),
                      VStr(""), VStr("v") }
                    \cup { ScalarList(n) : n \in 0..MaxItems }),
        d \in Field("entityaddress",
                    { VNone, VList(<<>>),
                      VList(<< VDict("city" :> VStr("c")), VDict("city" :> VNone) >>) }
                    \cup { VDict(f) : f \in NestedDicts }),
        c \in Field("city", { VStr("r") }),
        x \in { <<>>,
                ("associatedentity" :> VList(<< AuxRow("associatedentityguid", 1) >>)),
                ("usmsb" :> VList(<< AuxRow("usmsbguid", 1), AuxRow("usmsbguid", 2) >>)) } }

\* the first n rows of an auxiliary table as the merged column holds them
AuxRows(guid_col, n) == VList([i \in 1..n |-> AuxRow(guid_col, i)])

\* records for the extension point: a first and a last single-field table and
\* a first and a last multi-field table, each absent, null or with 0..MaxRows
\* rows
SegmentRecords ==
    { ("entityguid" :> VStr("v")) @@ a @@ s @@ i @@ u :
        a \in Field("associatedentity",
                    {VNone} \cup { AuxRows("associatedentityguid", n) : n \in 0..MaxRows }),
        s \in Field("swiftbicentity",
                    {VNone} \cup { AuxRows("swiftbicentityguid", n) : n \in 0..MaxRows }),
        i \in Field("ihsofacvessels",
                    {VNone} \cup { AuxRows("ihsofacvesselsguid", n) : n \in 0..MaxRows }),
        u \in Field("usmsb",
                    {VNone} \cup { AuxRows("usmsbguid", n) : n \in 0..MaxRows }) }

\* records for the scalar fields: EntityGUID holding each kind of scalar,
\* EntityAlias a sequence with an item lxml rejects, EntityAddress absent or
\* an empty record, and a root-level city
FieldRecords ==
    SegmentRecords
    \cup { g @@ a @@ d @@ c :
             g \in Field("entityguid",
                         { VNone, VStr(""), VStr("v"), VInt(0), VInt(7), VBool(FALSE),
                           VBool(TRUE), VStr("true"), VStr("1e2"), VStr("[1, 2]"), VStr("7"),
                           VStr("\\x00") }),
             a \in Field("entityalias",
                         { VList(<< VStr("a"), VStr("\\x00"), VStr("c") >>) }),
             d \in Field("entityaddress", { VDict(<<>>) }),
             c \in Field("city", { VStr("r") }) }

(***************************************************************************)
(* State machine.                                                          *)
(***************************************************************************)
NoResult == [none |-> TRUE]

\* the entry points that assemble the document in memory (generate_xml_logic1)
\* and those that stream it (generate_xml_logic2); "load1" and "load2" are
\* generate_xml_data run from the data directory
Batch == {"logic1", "logic1_build", "load1"}

Streaming == {"logic2", "load2"}

Idle ==
    /\ constraints = <<>> /\ name_map = <<>> /\ container_map = <<>> /\ registered = {}
    /\ data_obj = <<>> /\ out1 = NoResult /\ out2 = NoResult
    /\ df = <<>> /\ wco_data = <<>> /\ entities = <<>>
    /\ processes = 1 /\ section = "" /\ window = 0 /\ args = <<>>
    /\ running = {} /\ completed = <<>> /\ results = <<>> /\ xml_strings = <<>>
    /\ root_elem = NoResult /\ file = <<>>
    /\ storage = <<>> /\ error = NoResult

\* root_path: the first constraint path with one "/" (else "/Root")
RootPath(cons) ==
    LET cand == SelectSeq(cons, LAMBDA e : Len(e.key) = 1) IN
    IF cand # <<>> THEN cand[1].key ELSE <<"Root">>

EntityPath(cons) == RootPath(cons) \o <<"Entities", "Entity">>

RelationshipPath(cons) == RootPath(cons) \o <<"Relationships", "Relationship">>

\* generate_xml_data: constraints, name_map = parse_xsd(xsd_file_path)
ParseXsd ==
    /\ pc = "start"
    /\ LET st == parse_xsd(xsd) IN
       /\ constraints' = st.c
       /\ name_map' = st.n
    /\ pc' = "parsed"
    /\ UNCHANGED <<runVars, mode, xsd, container_map, registered, buildVars, tableVars, poolVars,
                   outVars>>

\* generate_xml_data: container_map = detect_container_map(constraints)
DetectContainers ==
    /\ pc = "parsed"
    /\ container_map' = detect_container_map(constraints)
    /\ registered' = LET ev == detect_registrations(constraints).ev
                     IN {<<ev[i].key, ev[i].val>> : i \in 1..Len(ev)}
    /\ pc' = IF container_map' = KeyError THEN "raised" ELSE "detected"
    /\ UNCHANGED <<runVars, mode, xsd, constraints, name_map, buildVars, tableVars, poolVars, outVars>>

\* one pool task of generate_xml_logic1: _build_single_entity on one record
BuildEntity1 ==
    /\ mode \in {"populate", "fields"} /\ pc = "detected"
    /\ \E rec \in (IF mode = "fields" THEN FieldRecords ELSE PopRecords) :
         /\ data_obj' = rec
         /\ out1' = build_single_1(rec, EntityPath(constraints), "Entity",
                                   constraints, name_map, container_map)
    /\ pc' = "built1"
    /\ UNCHANGED <<runVars, mode, xsd, constraints, name_map, container_map, registered, out2,
                   tableVars, poolVars, outVars>>

\* one pool task of generate_xml_logic2: _build_single_entity on one record
BuildEntity2 ==
    /\ mode \in {"populate", "fields"} /\ pc = "detected"
    /\ \E rec \in (IF mode = "fields" THEN FieldRecords ELSE PopRecords) :
         /\ data_obj' = rec
         /\ out2' = build_single_2(rec, EntityPath(constraints),
                                   constraints, name_map, container_map)
    /\ pc' = "built2"
    /\ UNCHANGED <<runVars, mode, xsd, constraints, name_map, container_map, registered, out1,
                   tableVars, poolVars, outVars>>

InitPop ==
    /\ mode = "populate" /\ pc = "start"
    /\ xsd \in PopSchemas
    /\ Idle

NextPop == ParseXsd \/ DetectContainers \/ BuildEntity1 \/ BuildEntity2

\* populate_children on every schema of PopSchemas and every record of PopRecords
SpecPop == InitPop /\ [][NextPop]_vars

InitFields ==
    /\ mode = "fields" /\ pc = "start"
    /\ xsd \in { WcoSchemaWith(occ, occ) : occ \in OccPairs }
               \cup { SharedNameSchema(occ) : occ \in OccPairs }
    /\ Idle

\* populate_children on the records of FieldRecords, the extension point
\* declared with every occurrence pair
SpecFields == InitFields /\ [][NextPop]_vars

(***************************************************************************)
(* detect_container_map on the constraint tables of a family of schemas.   *)
(***************************************************************************)
\* Root > (Docs > Doc, Group > Doc [, City]): the same child name under two
\* parents, the second with one or two declared children
DocSchema(max1, max2, two) ==
    Node("schema", <<>>, <<>>, <<>>, <<
      El("Root", <<>>, <<>>, << Cx(<<
        El("Docs", <<1>>, <<1>>, << Cx(<< El("Doc", <<0>>, max1, <<>>) >>) >>),
        El("Group", <<1>>, <<1>>, << Cx(
            << El("Doc", <<0>>, max2, <<>>) >>
            \o (IF two THEN << El("City", <<0>>, <<1>>, <<>>) >> ELSE <<>>)) >>)
      >>) >>)
    >>)

\* a schema that declares a single element
OneElementSchema(max) ==
    Node("schema", <<>>, <<>>, <<>>, << El("Root", <<>>, max, <<>>) >>)

MaxAttrs == { <<>>, <<Inf>>, <<1>>, <<MaxOcc>> }

DetectSchemas ==
    { DocSchema(m1, m2, two) : m1 \in MaxAttrs, m2 \in MaxAttrs, two \in BOOLEAN }
    \cup { OneElementSchema(m) : m \in MaxAttrs }
    \cup PopSchemas

InitDetect ==
    /\ mode = "detect" /\ pc = "start"
    /\ xsd \in DetectSchemas
    /\ Idle

NextDetect == ParseXsd \/ DetectContainers

\* parse_xsd and detect_container_map on every schema of DetectSchemas
SpecDetect == InitDetect /\ [][NextDetect]_vars

(***************************************************************************)
(* The multi-table strategy: build_wco_data_polars_lazy.                   *)
(***************************************************************************)
\* pl.col("entity_match_type") == kind (a null never compares equal)
OfMatchType(rows, kind) ==
    SelectSeq(rows, LAMBDA r : "entity_match_type" \in DOMAIN r
                               /\ r["entity_match_type"] = VStr(kind))

\* any(i.get(j) for j in additional_segments_tables_mutifield)
\*   and any(i.get(j) for j in additional_segments_tables_simple)
HasAuxiliaryRows(i) ==
    /\ \E k \in 1..Len(additional_segments_tables_mutifield) :
          Truthy(DGet(i, additional_segments_tables_mutifield[k].table))
    /\ \E k \in 1..Len(additional_segments_tables_simple) :
          Truthy(DGet(i, additional_segments_tables_simple[k].table))

\* lst[:1]
FirstOnly(lst) == IF lst = <<>> THEN <<>> ELSE <<lst[1]>>

\* entitydeletes_df is <<>> for None and <<rows>> for a table
build_wco_data_polars_lazy(rows, entitydeletes_df) ==
    LET entity_list        == SelectSeq(OfMatchType(rows, "matched_entity"), HasAuxiliaryRows)
        relations_list     == OfMatchType(rows, "related_entity")
        entitydeletes_list == IF entitydeletes_df = <<>> THEN <<>> ELSE entitydeletes_df[1]
    IN ("entities" :> FirstOnly(entity_list))
       @@ ("relationships" :> FirstOnly(relations_list))
       @@ ("entitydeletes" :> FirstOnly(entitydeletes_list))

(***************************************************************************)
(* The worker pool: Pool(processes).starmap(f, args).                      *)
(***************************************************************************)
\* a pool that hands the results back in the order the tasks finished
starmap_CompletionOrder(res, done) == [k \in 1..Len(done) |-> res[done[k]]]

\* the list starmap returns once every task has finished
starmap(res, done) == [i \in 1..Len(done) |-> res[i]]

\* index of the next task no worker has taken yet
NextTask == Cardinality(running) + Len(completed) + 1

\* a slice that ignores the offset: every window takes the first rows
Slice_FromStart(lst, offset, length) ==
    SubSeq(lst, 1, IF length < Len(lst) THEN length ELSE Len(lst))

\* lst[offset : offset + length]
Slice(lst, offset, length) ==
    SubSeq(lst, offset + 1, IF offset + length < Len(lst) THEN offset + length ELSE Len(lst))

(***************************************************************************)
(* Loading.  A table is [cols, rows], its rows functions from the column   *)
(* names to values; storage maps the name of each folder of the data       *)
(* directory to the tables of the parquet files it lists.                  *)
(***************************************************************************)
\* the keys of parquet_map, in dict order
parquet_map ==
    << "entity", "entityaddress", "entityalias", "entitycountryassociation", "entitydob",
       "entityidentifications", "entityposition", "entityrelationships", "entityremark",
       "entitysourceitem", "entityadversemedia", "entityenforcement",
       "entityenforcementsubcategory", "entitypep", "entitypepsubcategory",
       "entitysanction", "consolidatedsanction", "entitysoe", "entitysoedomain",
       "entitysoesubcategory", "entityidentification", "entitydeletes" >>

\* parent table -> child tables (a single table name stands for a list of one,
\* lines 210-214)
child_tables_map ==
    << [key |-> "entityenforcement", val |-> <<"entityenforcementsubcategory">>],
       [key |-> "entitypep",         val |-> <<"entitypepsubcategory">>],
       [key |-> "entitysanction",    val |-> <<"consolidatedsanction">>],
       [key |-> "entitysoe",         val |-> <<"entitysoedomain", "entitysoesubcategory">>] >>

guid_col_map ==
    [entityenforcement |-> "entityenforcementguid", entitypep |-> "entitypepguid",
     entitysanction |-> "entitysanctionguid", entitysoe |-> "entitysoeguid"]

get_required_parquet_tables(xsd_element_names) ==
    LET lower_xsd == { Lower(xsd_element_names[i]) : i \in 1..Len(xsd_element_names) }
        keys(confs) == [i \in 1..Len(confs) |-> confs[i].table]
    IN SelectSeq(parquet_map, LAMBDA tname : tname \in lower_xsd)
       \o <<"custom_feed_entity_match_type_lookup">>
       \o (IF \E i \in 1..Len(xsd_element_names) : xsd_element_names[i] = "AdditionalSegments"
           THEN keys(additional_segments_tables_simple)
                \o keys(additional_segments_tables_mutifield)
           ELSE <<>>)

\* the tables generate_xml_logic2 loads whatever the schema says
streaming_table_names ==
    << "entity", "entity_element_details_consolidated", "entitydeletes",
       "custom_feed_entity_match_type_lookup" >>

\* pl.concat(lazy_scans, how="vertical")
concat(lazy_scans) ==
    [cols |-> lazy_scans[1].cols,
     rows |-> Flatten([i \in 1..Len(lazy_scans) |-> lazy_scans[i].rows])]

\* the dict {table_name: LazyFrame}, in insertion order: a table is loaded
\* when os.path.isdir(folder) and the folder lists at least one file
RECURSIVE load_parquet_data_polars_lazy(_, _)
load_parquet_data_polars_lazy(directory, table_names) ==
    IF table_names = <<>> THEN <<>>
    ELSE LET name == Head(table_names) IN
         (IF name \in DOMAIN directory /\ directory[name] # <<>>
          THEN << [key |-> name, val |-> concat(directory[name])] >>
          ELSE <<>>)
         \o load_parquet_data_polars_lazy(directory, Tail(table_names))

(***************************************************************************)
(* merge_tables of generate_xml_logic1.                                    *)
(***************************************************************************)
\* t.group_by(col).agg([pl.struct(pl.all()).alias(alias)]): one row per value
\* of col, holding the other columns of its rows as a list of structs
group_by_agg(t, col, alias) ==
    LET \* the rows at which a value of col appears for the first time
        first == SelectSeq([i \in 1..Len(t.rows) |-> i],
                           LAMBDA i : \A j \in 1..(i - 1) : t.rows[j][col] # t.rows[i][col])
        Struct(r) == [c \in t.cols \ {col} |-> r[c]]
        Group(v) == SelectSeq(t.rows, LAMBDA r : r[col] = v)
    IN [cols |-> {col, alias},
        rows |-> [k \in 1..Len(first) |->
                    (col :> t.rows[first[k]][col])
                    @@ (alias :> MergedColumn(LET g == Group(t.rows[first[k]][col])
                                              IN [i \in 1..Len(g) |-> Struct(g[i])]))]]

\* the rows of left.join(right, on=on, how="left"): a null key matches nothing
RECURSIVE join_rows(_, _, _, _)
join_rows(lrows, right, on, i) ==
    IF i > Len(lrows) THEN <<>>
    ELSE LET l == lrows[i]
             matches == SelectSeq(right.rows, LAMBDA r : l[on] # VNone /\ r[on] = l[on])
             other == right.cols \ {on}
         IN (IF matches = <<>>
             THEN << l @@ [c \in other |-> VNone] >>
             ELSE [k \in 1..Len(matches) |-> l @@ [c \in other |-> matches[k][c]]])
            \o join_rows(lrows, right, on, i + 1)

\* left.join(right, on=on, how="left") (no table modelled shares another column)
left_join(left, right, on) ==
    [cols |-> left.cols \cup (right.cols \ {on}), rows |-> join_rows(left.rows, right, on, 1)]

\* lines 222-240: the inner loop over the child tables of one parent table
RECURSIVE join_child_tables(_, _, _, _, _)
join_child_tables(df_map, parent_table, parent_df, child_tables, k) ==
    IF k > Len(child_tables) THEN df_map
    ELSE LET child_table == child_tables[k] IN
         IF ~OHas(df_map, child_table)
         THEN join_child_tables(df_map, parent_table, parent_df, child_tables, k + 1)
         ELSE LET parent_guid_col == guid_col_map[parent_table]
                  grouped == group_by_agg(OGet(df_map, child_table), parent_guid_col,
                                          child_table)
                  x == left_join(parent_df, grouped, parent_guid_col)
              IN join_child_tables(OSet(df_map, parent_table, x), parent_table, parent_df,
                                   child_tables, k + 1)

\* lines 205-242: the loop over child_tables_map; the result is df_map and the
\* value child_tables is left with
RECURSIVE merge_child_tables(_, _, _)
merge_child_tables(df_map, child_tables, i) ==
    IF i > Len(child_tables_map) THEN [df_map |-> df_map, child_tables |-> child_tables]
    ELSE LET parent_table == child_tables_map[i].key IN
         IF ~OHas(df_map, parent_table) THEN merge_child_tables(df_map, child_tables, i + 1)
         ELSE LET tables == child_tables_map[i].val
                  parent_df == OGet(df_map, parent_table)
                  joined == join_child_tables(df_map, parent_table, parent_df, tables, 1)
              IN merge_child_tables(OSet(joined, parent_table, parent_df), tables, i + 1)

\* lines 246-261: every other table with an entityguid column is nested into
\* the root table
RECURSIVE join_entity_tables(_, _, _, _)
join_entity_tables(entity_df, df_map, child_tables, i) ==
    IF i > Len(df_map) THEN entity_df
    ELSE LET table_name == df_map[i].key
             child_df == df_map[i].val
         IN IF table_name = "entity" \/ \E k \in 1..Len(child_tables) : child_tables[k] = table_name
            THEN join_entity_tables(entity_df, df_map, child_tables, i + 1)
            ELSE IF "entityguid" \in child_df.cols
            THEN join_entity_tables(
                     left_join(entity_df, group_by_agg(child_df, "entityguid", table_name),
                               "entityguid"),
                     df_map, child_tables, i + 1)
            ELSE join_entity_tables(entity_df, df_map, child_tables, i + 1)

\* merge_tables: df_map as the call leaves it, and the table returned (<<>>
\* when df_map["entity"] raised KeyError)
merge_tables(df_map) ==
    LET st == merge_child_tables(df_map, <<>>, 1) IN
    IF ~OHas(st.df_map, "entity") THEN [df_map |-> st.df_map, entity_df |-> <<>>]
    ELSE LET nested == join_entity_tables(OGet(st.df_map, "entity"), st.df_map,
                                          st.child_tables, 1)
             lookup == "custom_feed_entity_match_type_lookup"
         IN [df_map |-> st.df_map,
             entity_df |-> << IF OHas(st.df_map, lookup)
                              THEN left_join(nested, OGet(st.df_map, lookup), "entityguid")
                              ELSE nested >>]

\* generate_xml_data, lines 564-569 (logic1) and 508 (logic2): the tables are
\* loaded from the data directory
LoadParquet ==
    /\ pc = "detected"
    /\ \/ /\ mode = "load1"
          /\ LET xsd_element_names == [i \in 1..Len(constraints) |-> constraints[i].val.name]
                 table_names == get_required_parquet_tables(xsd_element_names)
                 df_map == load_parquet_data_polars_lazy(storage, table_names)
             IN df' = [df_map |-> ODel(df_map, "entitydeletes"),
                       entitydeletes |-> IF OHas(df_map, "entitydeletes")
                                         THEN << OGet(df_map, "entitydeletes").rows >>
                                         ELSE <<>>]
       \/ /\ mode = "load2"
          /\ LET df_map == load_parquet_data_polars_lazy(storage, streaming_table_names)
             IN df' = [name \in { df_map[i].key : i \in 1..Len(df_map) } |->
                          OGet(df_map, name).rows]
    /\ pc' = "loaded"
    /\ UNCHANGED <<runVars, mode, xsd, constraints, name_map, container_map, registered, buildVars,
                   wco_data, entities, poolVars, outVars>>

\* generate_xml_data, line 570: df = merge_tables(df_map)
MergeTables ==
    /\ mode = "load1" /\ pc = "loaded"
    /\ LET st == merge_tables(df.df_map) IN
       IF st.entity_df = <<>>
       THEN /\ df' = [df EXCEPT !.df_map = st.df_map]
            /\ error' = KeyError
            /\ pc' = "raised"
       ELSE /\ df' = [df_map |-> st.df_map, merged |-> st.entity_df[1].rows,
                      columns |-> st.entity_df[1].cols, entitydeletes |-> df.entitydeletes]
            /\ pc' = "merged"
            /\ UNCHANGED error
    /\ UNCHANGED <<storage, mode, xsd, constraints, name_map, container_map, registered, buildVars,
                   wco_data, entities, poolVars, outVars>>

(***************************************************************************)
(* Batch assembly: build_xml_from_wco_data of generate_xml_logic1.         *)
(***************************************************************************)
EntityDeletePath(cons) == RootPath(cons) \o <<"EntityDeletes", "EntityDelete">>

\* the sections in the order the function assembles them
Sections(wco) ==
    <<"entities", "relationships">>
    \o (IF "entitydeletes" \in DOMAIN wco THEN <<"entitydeletes">> ELSE <<>>)

\* position of a section in Sections (0 before the first)
SectionIndex(sec) ==
    CASE sec = "entities" -> 1 [] sec = "relationships" -> 2
      [] sec = "entitydeletes" -> 3 [] OTHER -> 0

\* wco_data.get(sec, [])
SectionList(wco, sec) == IF sec \in DOMAIN wco THEN wco[sec] ELSE <<>>

\* the task function of a section applied to one record, as the string returned
BuildTask1(sec, rec, cons, nm, cm) ==
    tostring(CASE sec = "entities" ->
                    build_single_1(rec, EntityPath(cons), "Entity", cons, nm, cm)
               [] sec = "relationships" ->
                    build_single_1(rec, RelationshipPath(cons), "Relationship", cons, nm, cm)
               [] OTHER ->
                    build_single_1(rec, EntityDeletePath(cons), "Entity", cons, nm, cm))

BuildTask2(rec, cons, nm, cm) == tostring(build_single_2(rec, EntityPath(cons), cons, nm, cm))

\* for s in xml_strings: container.append(etree.fromstring(s))
AppendParsed(container, strs) ==
    [container EXCEPT !.kids = @ \o [i \in 1..Len(strs) |-> fromstring(strs[i])]]

\* generate_xml_data, lines 569-571: the merged table split into sections
BuildWcoData ==
    /\ \/ mode = "logic1" /\ pc = "detected"
       \/ mode = "load1" /\ pc = "merged"
    /\ IF "entity_match_type" \in df.columns
       THEN /\ wco_data' = build_wco_data_polars_lazy(df.merged, df.entitydeletes)
            /\ pc' = "split"
            /\ UNCHANGED error
       ELSE \* collect() of a filter on a column the table does not have
            /\ error' = ColumnNotFoundError
            /\ pc' = "raised"
            /\ UNCHANGED wco_data
    /\ UNCHANGED <<storage, mode, xsd, constraints, name_map, container_map, registered, buildVars,
                   df, entities, poolVars, outVars>>

\* build_xml_from_wco_data, lines 433-465: root and the two containers
OpenDocument1 ==
    /\ \/ mode \in {"logic1", "load1"} /\ pc = "split"
       \/ mode = "logic1_build" /\ pc = "detected"
    /\ LET root_path == RootPath(constraints) IN
       root_elem' = Elem(TagOf(constraints, root_path, "Root"), <<>>, <<>>,
                         << Empty(TagOf(constraints, Append(root_path, "Entities"), "Entities")),
                            Empty(TagOf(constraints, Append(root_path, "Relationships"),
                                        "Relationships")) >>)
    /\ section' = ""
    /\ pc' = "open"
    /\ UNCHANGED <<runVars, mode, xsd, constraints, name_map, container_map, registered, buildVars,
                   tableVars, processes, window, args, running, completed, results,
                   xml_strings, file>>

\* lines 468-472, 485-489, 501-511: the argument list of the next section is
\* handed to a new Pool
SubmitSection ==
    /\ mode \in Batch
    /\ pc \in {"open", "attached"}
    /\ SectionIndex(section) < Len(Sections(wco_data))
    /\ LET sec == Sections(wco_data)[SectionIndex(section) + 1] IN
       /\ section' = sec
       /\ args' = SectionList(wco_data, sec)
       /\ root_elem' = IF sec = "entitydeletes"
                       THEN [root_elem EXCEPT !.kids = Append(@, Empty("EntityDeletes"))]
                       ELSE root_elem
    /\ running' = {} /\ completed' = <<>> /\ results' = <<>>
    /\ pc' = "pool"
    /\ UNCHANGED <<runVars, mode, xsd, constraints, name_map, container_map, registered, buildVars,
                   tableVars, processes, window, xml_strings, file>>

\* a free worker takes the next task of the list
TaskStart ==
    /\ pc = "pool"
    /\ NextTask <= Len(args)
    /\ Cardinality(running) < processes
    /\ running' = running \cup {NextTask}
    /\ UNCHANGED <<runVars, mode, pc, xsd, constraints, name_map, container_map, registered, buildVars,
                   tableVars, processes, section, window, args, completed, results,
                   xml_strings, outVars>>

\* a task that reads name_map[parent_path] where the code reads
\* name_map.get(parent_path, {}): the defaultdict gains an entry for every
\* path looked up and not found (the root path of the task, the City leaf of
\* a record without address)
TaskDone_InsertsOnLookup ==
    /\ pc = "pool"
    /\ \E i \in running :
         /\ running' = running \ {i}
         /\ completed' = Append(completed, i)
         /\ results' = (i :> (IF mode \in Streaming
                              THEN BuildTask2(args[i], constraints, name_map, container_map)
                              ELSE BuildTask1(section, args[i], constraints, name_map,
                                              container_map)))
                       @@ results
         /\ LET top  == CASE mode \in Streaming -> EntityPath(constraints)
                          [] section = "entities" -> EntityPath(constraints)
                          [] section = "relationships" -> RelationshipPath(constraints)
                          [] OTHER -> EntityDeletePath(constraints)
                leaf == top \o <<"EntityAddress", "City">>
                Ins(d, k) == IF OHas(d, k) THEN d ELSE Append(d, [key |-> k, val |-> <<>>])
            IN name_map' = IF {"entityaddress", "city"} \cap DOMAIN args[i] = {}
                                /\ OHas(name_map, Append(top, "EntityAddress"))
                           THEN Ins(Ins(name_map, top), leaf)
                           ELSE Ins(name_map, top)
    /\ UNCHANGED <<runVars, mode, pc, xsd, constraints, container_map, registered, buildVars,
                   tableVars, processes, section, window, args, xml_strings, outVars>>

\* a worker finishes its task: _build_single_entity / _build_single_relationship
\* returns the serialized subtree
TaskDone ==
    /\ pc = "pool"
    /\ \E i \in running :
         /\ running' = running \ {i}
         /\ completed' = Append(completed, i)
         /\ results' = (i :> (IF mode \in Streaming
                              THEN BuildTask2(args[i], constraints, name_map, container_map)
                              ELSE BuildTask1(section, args[i], constraints, name_map,
                                              container_map)))
                       @@ results
    /\ UNCHANGED <<runVars, mode, pc, xsd, constraints, name_map, container_map, registered, buildVars,
                   tableVars, processes, section, window, args, xml_strings, outVars>>

\* lines 473-482, 490-499, 512-519: starmap returns and every string is parsed
\* and appended to the section's container
AttachSection ==
    /\ mode \in Batch
    /\ pc = "pool"
    /\ Len(completed) = Len(args)
    /\ xml_strings' = starmap(results, completed)
    /\ root_elem' = [root_elem EXCEPT !.kids[SectionIndex(section)] =
                         AppendParsed(@, xml_strings')]
    /\ pc' = "attached"
    /\ UNCHANGED <<runVars, mode, xsd, constraints, name_map, container_map, registered, buildVars,
                   tableVars, processes, section, window, args, running, completed, results,
                   file>>

\* the declaration write_xml_to_file puts first
XmlDeclaration == Tok("decl", "1.0", << <<"encoding", "UTF-8">> >>)

\* line 520 and write_xml_to_file: the finished tree is serialized to the file
WriteXmlToFile ==
    /\ mode \in Batch
    /\ pc = "attached"
    /\ SectionIndex(section) = Len(Sections(wco_data))
    /\ file' = <<XmlDeclaration>> \o tostring(root_elem)
    /\ pc' = "done"
    /\ UNCHANGED <<runVars, mode, xsd, constraints, name_map, container_map, registered, buildVars,
                   tableVars, poolVars, root_elem>>

(***************************************************************************)
(* Streaming assembly: build_xml_from_wco_data of generate_xml_logic2.     *)
(***************************************************************************)
\* the entityguid values of the lookup rows classified matched_entity
filtered_guid_list(lookup) ==
    { lookup[i].entityguid : i \in { j \in 1..Len(lookup) :
                                       lookup[j].entity_match_type = VStr("matched_entity") } }

\* lines 392-408: the (element, value) pairs of one root row; the values of
\* one element are joined with ", "
RECURSIVE Concat(_)
Concat(vals) ==
    IF Len(vals) = 1 THEN vals[1] ELSE vals[1] \o ", " \o Concat(Tail(vals))

PairsOf(guid, data) ==
    LET mine     == SelectSeq(data, LAMBDA d : d.entityguid = guid)
        elements == { Lower(mine[i].element) : i \in 1..Len(mine) }
    IN [e \in elements |->
          VStr(Concat(LET of_e == SelectSeq(mine, LAMBDA d : Lower(d.element) = e)
                      IN [i \in 1..Len(of_e) |-> of_e[i].value]))]

\* lines 424-437: the row as a dict, each pair assigned over it
RowDict(row, data) == PairsOf(row["entityguid"], data) @@ row

\* lines 346-384: the root rows are filtered and the open tags written
OpenDocument2 ==
    /\ \/ mode = "logic2" /\ pc = "detected"
       \/ mode = "load2" /\ pc = "loaded"
    /\ IF {"entity", "entity_element_details_consolidated",
           "custom_feed_entity_match_type_lookup"} \subseteq DOMAIN df      \* lines 360-362
       THEN /\ entities' =
                 SelectSeq(df["entity"],
                           LAMBDA r : r["entityguid"] \in
                              filtered_guid_list(df["custom_feed_entity_match_type_lookup"]))
            /\ LET root_path == RootPath(constraints) IN
               file' = << Tok("open", TagOf(constraints, root_path, "Root"), <<>>),
                          Tok("open", TagOf(constraints, Append(root_path, "Entities"),
                                            "Entities"), <<>>) >>
            /\ pc' = "open"
            /\ UNCHANGED error
       ELSE \* df_map[name] of a table that was not loaded (before the file is opened)
            /\ error' = KeyError
            /\ pc' = "raised"
            /\ UNCHANGED <<entities, file>>
    /\ window' = 0
    /\ UNCHANGED <<storage, mode, xsd, constraints, name_map, container_map, registered, buildVars,
                   df, wco_data, processes, section, args, running, completed, results,
                   xml_strings, root_elem>>

\* the loop has another window after the current one
MoreWindows == IF pc = "open" THEN 0 < Len(entities) ELSE window + chunk_size < Len(entities)

\* lines 386-444: the rows of the next window become the argument list of a
\* new Pool (after the cleanup of the previous window, lines 459-461)
SubmitWindow ==
    /\ mode \in Streaming
    /\ pc \in {"open", "attached"}
    /\ MoreWindows
    /\ LET i == IF pc = "open" THEN 0 ELSE window + chunk_size
           chunk_df == Slice(entities, i, chunk_size)
       IN /\ window' = i
          /\ args' = [k \in 1..Len(chunk_df) |-> RowDict(chunk_df[k], df["entity_element_details_consolidated"])]
    /\ running' = {} /\ completed' = <<>> /\ results' = <<>> /\ xml_strings' = <<>>
    /\ pc' = "pool"
    /\ UNCHANGED <<runVars, mode, xsd, constraints, name_map, container_map, registered, buildVars,
                   tableVars, processes, section, outVars>>

\* a window whose strings are kept back instead of being written
WriteWindow_Deferred ==
    /\ mode \in Streaming
    /\ pc = "pool"
    /\ Len(completed) = Len(args)
    /\ xml_strings' = starmap(results, completed)
    /\ pc' = "attached"
    /\ UNCHANGED <<runVars, mode, xsd, constraints, name_map, container_map, registered, buildVars,
                   tableVars, processes, section, window, args, running, completed, results,
                   outVars>>

\* lines 445-456: starmap returns and every string is written to the file
WriteWindow ==
    /\ mode \in Streaming
    /\ pc = "pool"
    /\ Len(completed) = Len(args)
    /\ xml_strings' = starmap(results, completed)
    /\ file' = file \o Flatten(xml_strings')
    /\ pc' = "attached"
    /\ UNCHANGED <<runVars, mode, xsd, constraints, name_map, container_map, registered, buildVars,
                   tableVars, processes, section, window, args, running, completed, results,
                   root_elem>>

\* lines 468-469: the loop is over, the close tags are written
CloseDocument2 ==
    /\ mode \in Streaming
    /\ pc \in {"open", "attached"}
    /\ ~MoreWindows
    /\ LET root_path == RootPath(constraints) IN
       file' = file \o
               << Tok("close", TagOf(constraints, Append(root_path, "Entities"), "Entities"),
                      <<>>),
                  Tok("close", TagOf(constraints, root_path, "Root"), <<>>) >>
    /\ pc' = "done"
    /\ UNCHANGED <<runVars, mode, xsd, constraints, name_map, container_map, registered, buildVars,
                   tableVars, poolVars, root_elem>>

(***************************************************************************)
(* Inputs of the two strategies.                                           *)
(***************************************************************************)
\* the entityguid of the i-th row of a table
Guid(prefix, i) == prefix \o ToString(i)

\* the auxiliary columns a merged row can hold: no auxiliary rows, rows of a
\* simple table only, rows of a simple and of a multi-field table
AuxColumns ==
    { ("associatedentity" :> MergedColumn(<<>>)) @@ ("usmsb" :> MergedColumn(<<>>)),
      ("associatedentity" :> MergedColumn(<< AuxRow("associatedentityguid", 1).d[1] >>))
         @@ ("usmsb" :> MergedColumn(<<>>)),
      ("associatedentity" :> MergedColumn(<< AuxRow("associatedentityguid", 1).d[1] >>))
         @@ ("usmsb" :> MergedColumn(<< AuxRow("usmsbguid", 1).d[1] >>)) }

MatchTypes == { VStr("matched_entity"), VStr("related_entity"), VNone }

\* the merged tables of n rows
MergedTables(n) ==
    { [i \in 1..n |-> ("entityguid" :> VStr(Guid("E", i)))
                      @@ ("entity_match_type" :> t[i]) @@ x[i]] :
        t \in [1..n -> MatchTypes], x \in [1..n -> AuxColumns] }

\* n records of one section, told apart by their entityguid
RecordList(prefix, n) == [i \in 1..n |-> ("entityguid" :> VStr(Guid(prefix, i)))]

\* df_map.pop('entitydeletes', None): no table, or a table of up to 2 rows
EntityDeleteTables == { <<>> } \cup { << RecordList("D", k) >> : k \in {0, 2} }

\* the wco_data a caller hands to build_xml_from_wco_data
WcoDataArgs ==
    { ("entities" :> RecordList("E", n)) @@ ("relationships" :> RecordList("R", m)) @@ d :
        n \in 0..MaxRows, m \in 0..MaxRows,
        d \in { <<>> } \cup { ("entitydeletes" :> RecordList("D", k)) : k \in 0..1 } }

\* the df_map of the streaming strategy: n root rows, a lookup row for each,
\* and a generic (guid, element, value) row for each of the first d root rows
DfMaps(n) ==
    { [entity |-> RecordList("E", n),
       custom_feed_entity_match_type_lookup |->
           [i \in 1..n |-> [entityguid |-> VStr(Guid("E", i)), entity_match_type |-> t[i]]],
       entity_element_details_consolidated |->
           [i \in 1..d |-> [entityguid |-> VStr(Guid("E", i)),
                            element |-> "City", value |-> "c"]]] :
        t \in [1..n -> {VStr("matched_entity"), VStr("related_entity")}],
        d \in 0..n }

BuildSchema == WcoSchema(<< <<1>>, <<MaxOcc>> >>)

InitBuild ==
    /\ pc = "start"
    /\ xsd = BuildSchema
    /\ constraints = <<>> /\ name_map = <<>> /\ container_map = <<>> /\ registered = {}
    /\ data_obj = <<>> /\ out1 = NoResult /\ out2 = NoResult
    /\ entities = <<>>
    /\ section = "" /\ window = 0 /\ args = <<>>
    /\ running = {} /\ completed = <<>> /\ results = <<>> /\ xml_strings = <<>>
    /\ root_elem = NoResult /\ file = <<>>
    /\ storage = <<>> /\ error = NoResult
    /\ \/ /\ mode = "logic1"
          /\ processes = 1          \* generate_xml_data passes no processes argument
          /\ \E n \in 0..MaxRows : \E m \in MergedTables(n) : \E e \in EntityDeleteTables :
               df = [merged |-> m, entitydeletes |-> e,
                     columns |-> {"entityguid", "entity_match_type", "associatedentity",
                                  "usmsb"}]
          /\ wco_data = <<>>
       \/ /\ mode = "logic1_build"
          /\ processes \in 1..MaxProcs
          /\ df = <<>>
          /\ wco_data \in WcoDataArgs
       \/ /\ mode = "logic2"
          /\ processes \in 1..MaxProcs
          /\ \E n \in 0..(MaxRows + 2) : df \in DfMaps(n)
          /\ wco_data = <<>>

NextBuild ==
    \/ ParseXsd \/ DetectContainers
    \/ BuildWcoData \/ OpenDocument1 \/ SubmitSection \/ AttachSection \/ WriteXmlToFile
    \/ OpenDocument2 \/ SubmitWindow \/ WriteWindow \/ CloseDocument2
    \/ TaskStart \/ TaskDone

\* both strategies from the schema to the finished file
SpecBuild == InitBuild /\ [][NextBuild]_vars

(***************************************************************************)
(* generate_xml_data from the data directory, for every set of folders.    *)
(***************************************************************************)
\* WCOData > Entities > Entity > (EntityGUID, EntityAlias, EntitySOE >
\* (EntitySOEDomain, EntitySOESubcategory), AdditionalSegments);
\* Relationships > Relationship > EntityGUID; EntityDeletes > EntityDelete >
\* EntityGUID
LoadSchema ==
    Node("schema", <<>>, <<>>, <<>>, <<
      El("WCOData", <<>>, <<>>, << Cx(<<
        El("Entities", <<1>>, <<1>>, << Cx(<<
          El("Entity", <<0>>, <<Inf>>, << Cx(<<
            El("EntityGUID", <<1>>, <<1>>, <<>>),
            El("EntityAlias", <<0>>, <<Inf>>, <<>>),
            El("EntitySOE", <<0>>, <<Inf>>, << Cx(<<
              El("EntitySOEDomain", <<0>>, <<Inf>>, <<>>),
              El("EntitySOESubcategory", <<0>>, <<Inf>>, <<>>)
            >>) >>),
            El("AdditionalSegments", <<0>>, <<1>>, <<>>)
          >>) >>)
        >>) >>),
        El("Relationships", <<1>>, <<1>>, << Cx(<<
          El("Relationship", <<0>>, <<Inf>>, << Cx(<<
            El("EntityGUID", <<1>>, <<1>>, <<>>)
          >>) >>)
        >>) >>),
        El("EntityDeletes", <<0>>, <<1>>, << Cx(<<
          El("EntityDelete", <<0>>, <<Inf>>, << Cx(<<
            El("EntityGUID", <<1>>, <<1>>, <<>>)
          >>) >>)
        >>) >>)
      >>) >>)
    >>)

\* a table from its column names (in order) and the values of each row
Table(names, values) ==
    [cols |-> { names[c] : c \in 1..Len(names) },
     rows |-> [i \in 1..Len(values) |->
                 [c \in { names[k] : k \in 1..Len(names) } |->
                    VStr(values[i][CHOOSE k \in 1..Len(names) : names[k] = c])]]]

\* the parquet files of each folder of the multi-table strategy: two root
\* rows in two files; E1 has two aliases and two EntitySOE rows, of which S1
\* has two domains and one subcategory and S2 none
TableFiles ==
    [entity |-> << Table(<<"entityguid">>, << <<"E1">> >>),
                   Table(<<"entityguid">>, << <<"E2">> >>) >>,
     custom_feed_entity_match_type_lookup |->
        << Table(<<"entityguid", "entity_match_type">>,
                 << <<"E1", "matched_entity">>, <<"E2", "related_entity">> >>) >>,
     entityalias |->
        << Table(<<"entityguid", "aliasname">>, << <<"E1", "a">>, <<"E1", "b">> >>) >>,
     entitysoe |->
        << Table(<<"entityguid", "entitysoeguid">>, << <<"E1", "S1">>, <<"E1", "S2">> >>) >>,
     entitysoedomain |->
        << Table(<<"entitysoeguid", "domain">>, << <<"S1", "d1">>, <<"S1", "d2">> >>) >>,
     entitysoesubcategory |->
        << Table(<<"entitysoeguid", "subcategory">>, << <<"S1", "s1">> >>) >>,
     entitydeletes |-> << Table(<<"entityguid">>, << <<"D1">> >>) >>,
     associatedentity |->
        << Table(<<"entityguid", "associatedentityguid", "lastupdated", "source_name">>,
                 << <<"E1", "G-1", "2024-01-01", "a">> >>) >>,
     usmsb |->
        << Table(<<"entityguid", "usmsbguid", "lastupdated", "source_name">>,
                 << <<"E1", "G-1", "2024-01-01", "a">>, <<"E1", "G-1", "2024-01-01", "b">> >>) >>]

\* the data directories of the multi-table strategy: any set of folders
\* (the two auxiliary ones together), one of which may list no file
Directories1 ==
    { [name \in present \cup aux |-> IF name \in empty THEN <<>> ELSE TableFiles[name]] :
        present \in SUBSET (DOMAIN TableFiles \ {"associatedentity", "usmsb"}),
        aux \in {{}, {"associatedentity", "usmsb"}},
        empty \in {{}, {"entityalias"}} }

\* the folders of the generic attribute-table strategy with n root rows, each
\* with a column entityalias; the first root row also has the attribute pair
\* (EntityAlias, p)
StreamingFiles(n, p) ==
    [entity |-> << [cols |-> {"entityguid", "entityalias"},
                    rows |-> [i \in 1..n |-> RecordList("E", n)[i]
                                             @@ ("entityalias" :> VStr("r"))]] >>,
     custom_feed_entity_match_type_lookup |->
        << [cols |-> {"entityguid", "entity_match_type"},
            rows |-> [i \in 1..n |-> [entityguid |-> VStr(Guid("E", i)),
                                      entity_match_type |-> VStr("matched_entity")]]] >>,
     entity_element_details_consolidated |->
        << [cols |-> {"entityguid", "element", "value"},
            rows |-> [i \in 1..(IF n > 0 THEN 1 ELSE 0) |->
                        [entityguid |-> VStr(Guid("E", i)), element |-> "EntityAlias",
                         value |-> p]]] >>,
     entitydeletes |-> << [cols |-> {"entityguid"}, rows |-> RecordList("D", 1)] >>]

Directories2 ==
    { [name \in present |-> StreamingFiles(n, p)[name]] :
        present \in SUBSET (DOMAIN StreamingFiles(0, "")), n \in {0, 1, MaxRows + 1},
        p \in {"c", ""} }

InitLoad ==
    /\ pc = "start"
    /\ xsd = LoadSchema
    /\ constraints = <<>> /\ name_map = <<>> /\ container_map = <<>> /\ registered = {}
    /\ data_obj = <<>> /\ out1 = NoResult /\ out2 = NoResult
    /\ df = <<>> /\ wco_data = <<>> /\ entities = <<>>
    /\ section = "" /\ window = 0 /\ args = <<>>
    /\ running = {} /\ completed = <<>> /\ results = <<>> /\ xml_strings = <<>>
    /\ root_elem = NoResult /\ file = <<>>
    /\ error = NoResult
    /\ \/ /\ mode = "load1"
          /\ processes = 1          \* generate_xml_data passes no processes argument
          /\ storage \in Directories1
       \/ /\ mode = "load2"
          /\ processes \in 1..MaxProcs
          /\ storage \in Directories2

NextLoad == NextBuild \/ LoadParquet \/ MergeTables

\* both strategies from the data directory to the finished file
SpecLoad == InitLoad /\ [][NextLoad]_vars

(***************************************************************************)
(* Mock mode of generate_xml_data (both modules hold the same literal).    *)
(***************************************************************************)
MockElement(tag, guid) ==
    << Tok("open", tag, <<>>), Tok("open", "EntityGUID", <<>>), Tok("text", guid, <<>>),
       Tok("close", "EntityGUID", <<>>), Tok("close", tag, <<>>) >>

\* the string literal written in mock mode, token by token
MockDocument ==
    << Tok("decl", "1.0", << <<"encoding", "UTF-8">> >>),
       Tok("open", "WCOData", <<>>),
       Tok("open", "Entities", <<>>) >>
    \o MockElement("Entity", "CD6FEAD6-EBFB-4FAC-BDF1-47E47AA5B2FD")
    \o << Tok("close", "Entities", <<>>),
          Tok("open", "Relationships", <<>>) >>
    \o MockElement("Relationship", "5248D129-2092-4017-8E87-A068BD65FF56")
    \o << Tok("open", "EntityDeletes", <<>>) >>
    \o MockElement("EntityDelete", "A7B4D9C1-5FB4-41A1-8E22-0D38405C3EC4")
    \o << Tok("close", "EntityDeletes", <<>>),
          Tok("close", "WCOData", <<>>) >>

\* generate_xml_data(..., mock=True): the literal is written and the call returns
GenerateMock ==
    /\ mode \in {"mock1", "mock2"} /\ pc = "start"
    /\ file' = MockDocument
    /\ pc' = "returned"
    /\ UNCHANGED <<runVars, mode, xsd, constraints, name_map, container_map, registered, buildVars,
                   tableVars, poolVars, root_elem>>

InitMock ==
    /\ mode \in {"mock1", "mock2"} /\ pc = "start"
    /\ xsd \in DetectSchemas
    /\ Idle

NextMock == GenerateMock

\* generate_xml_data in mock mode, for either module and any schema file
SpecMock == InitMock /\ [][NextMock]_vars

\* etree.parse(xml_path): the document element of a file, or ParseError
parse(toks) ==
    IF toks # <<>> /\ toks[1].t = "decl" THEN fromstring(Tail(toks)) ELSE fromstring(toks)

(***************************************************************************)
(* Vocabulary of the properties: the schema tables read directly, and the  *)
(* elements of a built subtree with the path (and record) each came from.  *)
(***************************************************************************)
\* the NameMap entry of a path: its declared children in document order
SchemaChildren(path) == IF OHas(name_map, path) THEN OGet(name_map, path) ELSE <<>>

\* the constraint declared at a path
MinOccursAt(path) == OGet(constraints, path).minOccurs

MaxOccursAt(path) == OGet(constraints, path).maxOccurs

\* the children of e with a tag, in order
WithTag(e, tag) == SelectSeq(e.kids, LAMBDA kid : kid.tag = tag)

IsEmptyElem(e) == e.text = <<>> /\ e.kids = <<>>

Smaller(a, b) == IF a < b THEN a ELSE b

\* every element of the subtree e, with its schema path
RECURSIVE Subtrees(_, _)
Subtrees(e, path) ==
    { [e |-> e, path |-> path] }
    \cup UNION { Subtrees(e.kids[j], Append(path, e.kids[j].tag)) : j \in 1..Len(e.kids) }

\* every element of the subtree e whose children populate_children made from
\* a record, with that record: e itself (from rec), the single child made for
\* a key the record lacks (same record), the child of a nested record and the
\* children of the nested records of a sequence.  With deep = FALSE only the
\* elements made from rec itself.
RECURSIVE Populated(_, _, _, _)
Populated(e, path, rec, deep) ==
    LET decl == SchemaChildren(path)
        Under(i) ==
            LET key  == decl[i].key
                full == Append(path, decl[i].val)
                ks   == WithTag(e, decl[i].val)
            IN IF key = "additionalsegments" THEN {}
               ELSE IF key \notin DOMAIN rec
               THEN IF key \in DOMAIN container_map THEN {}
                    ELSE UNION { Populated(ks[j], full, rec, deep) : j \in 1..Len(ks) }
               ELSE IF ~deep THEN {}
               ELSE IF rec[key].k = "dict"
               THEN UNION { Populated(ks[j], full, rec[key].d[1], deep) : j \in 1..Len(ks) }
               ELSE IF rec[key].k = "list"
               THEN UNION { Populated(ks[j], full, rec[key].items[j].d[1], deep) :
                              j \in { n \in 1..Smaller(Len(ks), Len(rec[key].items)) :
                                        rec[key].items[n].k = "dict" } }
               ELSE {}
    IN { [e |-> e, path |-> path, rec |-> rec] } \cup UNION { Under(i) : i \in 1..Len(decl) }

\* the declared children of a path other than the AdditionalSegments extension point
FieldsAt(path) == { i \in 1..Len(SchemaChildren(path)) :
                      SchemaChildren(path)[i].key # "additionalsegments" }

Built1 == Populated(out1, EntityPath(constraints), data_obj, TRUE)

Built2 == Populated(out2, EntityPath(constraints), data_obj, TRUE)

(***************************************************************************)
(* C1.  Every element populate_children (logic1) produced has, for each    *)
(* child tag declared at its path, between minOccurs and maxOccurs         *)
(* children with that tag, whatever the shape of the field.                *)
(***************************************************************************)
OccurrenceOk(t) ==
    \A i \in 1..Len(SchemaChildren(t.path)) :
        LET tag  == SchemaChildren(t.path)[i].val
            full == Append(t.path, tag)
            cnt  == Len(WithTag(t.e, tag))
        IN /\ cnt >= MinOccursAt(full)
           /\ (MaxOccursAt(full) = Inf \/ cnt <= MaxOccursAt(full))

\* C1: every child tag declared at the path of a produced element occurs between
\* minOccurs and maxOccurs times under it
C1_OccurrenceWithinBounds ==
    pc = "built1" => \A t \in Subtrees(out1, EntityPath(constraints)) : OccurrenceOk(t)

(***************************************************************************)
(* C2.  A field present in the record with value null or "" yields no      *)
(* element at its tag; a field present with an empty sequence yields       *)
(* exactly minOccurs elements, each without text and children.             *)
(* As stated (C2_AsStated) this is for populate_children of both modules   *)
(* and every record, nested ones included.  C2_NullVersusEmptySequence is  *)
(* the statement with the precedence of generate_xml_logic2 taken into     *)
(* account: there the rule is for the fields under whose key the root      *)
(* record (all_data) holds no truthy value.                                *)
(***************************************************************************)
NullAndEmptyRule(t, key, tag) ==
    LET ks == WithTag(t.e, tag) IN
    /\ (t.rec[key] \in {VNone, VStr("")} => ks = <<>>)
    /\ (t.rec[key] = VList(<<>>) =>
          /\ Len(ks) = MinOccursAt(Append(t.path, tag))
          /\ \A j \in 1..Len(ks) : IsEmptyElem(ks[j]))

\* the root record holds a truthy value under the key
RootHolds(key) == key \in DOMAIN data_obj /\ Truthy(data_obj[key])

DeclIndex(path, tag) ==
    LET decl == SchemaChildren(path) IN
    IF \E i \in 1..Len(decl) : decl[i].key = Lower(tag)
    THEN CHOOSE i \in 1..Len(decl) : decl[i].key = Lower(tag)
    ELSE 0

InDocumentOrder(t) ==
    \A j, k \in 1..Len(t.e.kids) :
        (j < k /\ DeclIndex(t.path, t.e.kids[j].tag) > 0 /\ DeclIndex(t.path, t.e.kids[k].tag) > 0)
            => DeclIndex(t.path, t.e.kids[j].tag) <= DeclIndex(t.path, t.e.kids[k].tag)

\* C4: no child declared later precedes a child declared earlier
C4_ChildrenInDocumentOrder ==
    pc = "built1" => \A t \in Subtrees(out1, EntityPath(constraints)) : InDocumentOrder(t)

\* all four declared children present, with padded placeholders and segments
C4_Witness ==
    /\ pc = "built1"
    /\ Len(WithTag(out1, "EntityGUID")) = 2
    /\ Len(WithTag(out1, "EntityAliases")) = 1
    /\ \E j \in 1..Len(out1.kids) : out1.kids[j].tag = "EntityAddress" /\ IsEmptyElem(out1.kids[j])
    /\ out1.kids[Len(out1.kids)].tag = "AdditionalSegments"
    /\ out1.kids[Len(out1.kids)].kids # <<>>

(***************************************************************************)
(* C6.  A sequence of n items is rendered as its first min(n, maxOccurs)   *)
(* items (all n when unbounded), one element per item in item order; what  *)
(* follows them is only the padding up to minOccurs.                       *)
(***************************************************************************)
SequenceRule(t) ==
    \A i \in FieldsAt(t.path) :
        LET key  == SchemaChildren(t.path)[i].key
            tag  == SchemaChildren(t.path)[i].val
            full == Append(t.path, tag)
            ks   == WithTag(t.e, tag)
        IN (key \in DOMAIN t.rec /\ t.rec[key].k = "list") =>
             LET items == t.rec[key].items
                 n     == Len(items)
                 used  == IF MaxOccursAt(full) = Inf THEN n ELSE Smaller(n, MaxOccursAt(full))
             IN /\ Len(ks) = used + (IF n < MinOccursAt(full) THEN MinOccursAt(full) - n ELSE 0)
                /\ \A j \in 1..used :
                     IF items[j].k = "dict" THEN ks[j].text = <<>>
                     ELSE ks[j].text = <<items[j].s>> /\ ks[j].kids = <<>>
                /\ \A j \in (used + 1)..Len(ks) : IsEmptyElem(ks[j])

\* C6: the first min(n, maxOccurs) items are rendered, one element each, in item order
C6_SequenceTruncatedInOrder ==
    pc = "built1" => \A t \in Built1 : SequenceRule(t)

\* three items under maxOccurs = 1: only the first is rendered
C6_Witness ==
    /\ pc = "built1"
    /\ "entityalias" \in DOMAIN data_obj /\ data_obj["entityalias"] = ScalarList(3)
    /\ \E t \in Built1 :
         /\ t.e.tag = "EntityAliases"
         /\ MaxOccursAt(Append(t.path, "EntityAlias")) = 1
         /\ WithTag(t.e, "EntityAlias") = << Elem("EntityAlias", <<>>, <<"a">>, <<>>) >>

(***************************************************************************)
(* C7.  With minOccurs = 2, a root record that supplies zero items for a   *)
(* field (an empty sequence, the null the left join leaves, or no key)     *)
(* gets exactly 2 empty elements at that tag.                              *)
(***************************************************************************)
ZeroItems(rec, key) ==
    key \notin DOMAIN rec \/ rec[key] = VList(<<>>) \/ rec[key] = MergedColumn(<<>>)

\* C7: zero items under minOccurs = 2 give exactly 2 empty elements, however the
\* record represents zero items
C7_MinOccursTwoPadsZeroItems ==
    pc = "built1" =>
      \A t \in Populated(out1, EntityPath(constraints), data_obj, FALSE) :
        \A i \in FieldsAt(t.path) :
          LET key == SchemaChildren(t.path)[i].key
              tag == SchemaChildren(t.path)[i].val
              ks  == WithTag(t.e, tag)
          IN (MinOccursAt(Append(t.path, tag)) = 2 /\ ZeroItems(data_obj, key)) =>
               Len(ks) = 2 /\ \A j \in 1..Len(ks) : IsEmptyElem(ks[j])

(***************************************************************************)
(* C5.  detect_container_map registers lowercase(childTag) ->              *)
(* (parentTag, lowercase(childTag)) if and only if the parent path of the  *)
(* child has exactly one declared child and that child's maxOccurs is      *)
(* greater than 1 or unbounded.                                            *)
(***************************************************************************)
\* the constraint entries declared directly under a parent path
DeclaredUnder(parent) == { i \in 1..Len(constraints) : ParentPath(constraints[i].key) = parent }

\* the parent path has exactly one declared child, and that child repeats
SoleRepeatingChild(parent) ==
    /\ Cardinality(DeclaredUnder(parent)) = 1
    /\ \A i \in DeclaredUnder(parent) :
         constraints[i].val.maxOccurs = Inf \/ constraints[i].val.maxOccurs > 1

\* the tags a parent path goes by: the tag its constraint names
ParentTags(parent) == { constraints[i].val.name : i \in { j \in 1..Len(constraints) :
                                                           constraints[j].key = parent } }

\* C5: an entry is registered for a child iff its parent path has that child as
\* its only declared child and the child repeats
C5_EntryIffSoleRepeatingChild ==
    pc \in {"detected", "raised"} =>
      \A i \in 1..Len(constraints) :
        LET parent == ParentPath(constraints[i].key)
            key    == Lower(constraints[i].val.name)
        IN SoleRepeatingChild(parent)
             <=> (\E e \in registered : e[1] = key /\ e[2][2] = key
                                        /\ e[2][1] \in ParentTags(parent))

\* the same statement for the parent paths that are themselves declared
\* (every parent path but the document level "")
C5_HoldsUnderDeclaredParents ==
    pc \in {"detected", "raised"} =>
      \A i \in 1..Len(constraints) :
        LET parent == ParentPath(constraints[i].key)
            key    == Lower(constraints[i].val.name)
        IN OHas(constraints, parent) =>
             (SoleRepeatingChild(parent)
                <=> (\E e \in registered : e[1] = key /\ e[2][2] = key
                                           /\ e[2][1] \in ParentTags(parent)))

(***************************************************************************)
(* C3.  Once the results of a pool are attached (batch) or written         *)
(* (streaming), the i-th element of the section or window is the subtree   *)
(* built from the i-th submitted record, and there are as many elements as *)
(* submitted records, whatever the order in which the tasks completed.     *)
(***************************************************************************)
\* the subtree the task function builds from a submitted record
SubtreeOf(rec) ==
    CASE mode = "logic2" ->
            build_single_2(rec, EntityPath(constraints), constraints, name_map, container_map)
      [] section = "entities" ->
            build_single_1(rec, EntityPath(constraints), "Entity",
                           constraints, name_map, container_map)
      [] section = "relationships" ->
            build_single_1(rec, RelationshipPath(constraints), "Relationship",
                           constraints, name_map, container_map)
      [] OTHER ->
            build_single_1(rec, EntityDeletePath(constraints), "Entity",
                           constraints, name_map, container_map)

\* the file as a reader would see it were the open elements closed now
FileClosed ==
    IF pc = "done" THEN parse(file)
    ELSE parse(file \o << Tok("close", file[2].v, <<>>), Tok("close", file[1].v, <<>>) >>)

\* the elements of the current section (batch) or of the current window (streaming)
Emitted ==
    IF mode = "logic2"
    THEN LET ents == FileClosed.kids[1].kids
         IN IF Len(ents) >= window THEN SubSeq(ents, window + 1, Len(ents)) ELSE <<>>
    ELSE root_elem.kids[SectionIndex(section)].kids

\* C3: the i-th emitted element is the subtree of the i-th submitted record, none
\* lost or duplicated
C3_OutputInSubmissionOrder ==
    (pc = "attached" /\ Len(args) >= 2) =>
       /\ mode = "logic2" => FileClosed # ParseError /\ Len(FileClosed.kids[1].kids) = window + Len(args)
       /\ Len(Emitted) = Len(args)
       /\ \A i \in 1..Len(args) : Emitted[i] = SubtreeOf(args[i])

\* batch: two records whose tasks completed in the reverse of submission order
C3_Witness ==
    /\ mode = "logic1_build" /\ pc = "attached" /\ section = "entities"
    /\ Len(args) = 2 /\ completed = <<2, 1>>
    /\ Len(Emitted) = 2

\* streaming: a second window whose first task completed last
C3_WitnessStreaming ==
    /\ mode = "logic2" /\ pc = "attached" /\ window > 0
    /\ Len(args) >= 2 /\ completed[Len(completed)] = 1

(***************************************************************************)
(* C8.  In mock mode generate_xml_data parses no schema and loads no       *)
(* table, and the file it writes is well formed, with exactly one Entity   *)
(* in Entities, one Relationship in Relationships and one EntityDelete in  *)
(* EntityDeletes, each with a single EntityGUID child of fixed text.       *)
(***************************************************************************)
\* container holds exactly one element, tagged tag, whose only child is an
\* EntityGUID with the given text
HoldsOne(doc, container, tag, guid) ==
    /\ Len(WithTag(doc, container)) = 1
    /\ WithTag(doc, container)[1].kids
          = << Elem(tag, <<>>, <<>>, << Elem("EntityGUID", <<>>, <<guid>>, <<>>) >>) >>

\* C8: the mock file is well formed and holds the three fixed elements; no schema
\* parsed, no table loaded
C8_MockDocumentWellFormed ==
    pc = "returned" =>
       /\ constraints = <<>> /\ name_map = <<>> /\ df = <<>> /\ wco_data = <<>>
       /\ parse(file) # ParseError
       /\ HoldsOne(parse(file), "Entities", "Entity", "CD6FEAD6-EBFB-4FAC-BDF1-47E47AA5B2FD")
       /\ HoldsOne(parse(file), "Relationships", "Relationship",
                   "5248D129-2092-4017-8E87-A068BD65FF56")
       /\ HoldsOne(parse(file), "EntityDeletes", "EntityDelete",
                   "A7B4D9C1-5FB4-41A1-8E22-0D38405C3EC4")

\* what does hold of the file: nothing was parsed or loaded, and the three
\* elements are there token by token, but Relationships is never closed
C8_MockDocumentAsWritten ==
    pc = "returned" =>
       /\ constraints = <<>> /\ name_map = <<>> /\ df = <<>> /\ wco_data = <<>>
       /\ file = MockDocument
       /\ \A tag \in {"Entity", "Relationship", "EntityDelete"} :
             Cardinality({ i \in 1..Len(file) : file[i] = Tok("open", tag, <<>>) }) = 1
       /\ Cardinality({ i \in 1..Len(file) : file[i] = Tok("open", "Relationships", <<>>) }) = 1
       /\ Cardinality({ i \in 1..Len(file) : file[i] = Tok("close", "Relationships", <<>>) }) = 0
       /\ parse(file) = ParseError

(***************************************************************************)
(* C9.  The finished output of either strategy has a single root element   *)
(* named after the schema's top-level element, among whose children are    *)
(* exactly one Entities container and, after it, exactly one Relationships *)
(* container.                                                              *)
(***************************************************************************)
\* the name of the first top-level element declaration of the schema
TopLevelName == xsd.kids[1].name[1]

\* C9: the finished file has one root, holding one Entities container followed by
\* one Relationships container
C9_RootHoldsEntitiesThenRelationships ==
    pc = "done" =>
       /\ parse(file) # ParseError
       /\ parse(file).tag = TopLevelName
       /\ Len(WithTag(parse(file), "Entities")) = 1
       /\ Len(WithTag(parse(file), "Relationships")) = 1
       /\ \E i, j \in 1..Len(parse(file).kids) :
             /\ i < j
             /\ parse(file).kids[i].tag = "Entities"
             /\ parse(file).kids[j].tag = "Relationships"

\* the same for the batch strategy alone
C9_BatchRootHoldsBoth ==
    (pc = "done" /\ mode # "logic2") =>
       /\ parse(file) # ParseError
       /\ parse(file).tag = TopLevelName
       /\ Len(WithTag(parse(file), "Entities")) = 1
       /\ Len(WithTag(parse(file), "Relationships")) = 1
       /\ parse(file).kids[1].tag = "Entities"
       /\ parse(file).kids[2].tag = "Relationships"

(***************************************************************************)
(* C10.  Multi-table strategy, generate_xml_data: every merged row         *)
(* classified matched_entity that passes the auxiliary-table filter has    *)
(* exactly one element in Entities, every row classified related_entity    *)
(* exactly one in Relationships, and no other row has an element there.    *)
(***************************************************************************)
\* the elements under a container of the finished file that carry a guid
ElementsOf(container, guid) ==
    LET holders == WithTag(parse(file), container) IN
    IF holders = <<>> THEN <<>>
    ELSE SelectSeq(holders[1].kids,
                   LAMBDA e : \E k \in 1..Len(e.kids) :
                                 e.kids[k].tag = "EntityGUID" /\ e.kids[k].text = <<guid>>)

\* the row has rows of a multi-field table and rows of a simple table
PassesAuxiliaryFilter(row) ==
    /\ \E k \in 1..Len(additional_segments_tables_mutifield) :
          LET col == additional_segments_tables_mutifield[k].table IN
          col \in DOMAIN row /\ row[col].k = "list" /\ row[col].items # <<>>
    /\ \E k \in 1..Len(additional_segments_tables_simple) :
          LET col == additional_segments_tables_simple[k].table IN
          col \in DOMAIN row /\ row[col].k = "list" /\ row[col].items # <<>>

\* C10: each section holds exactly one element per row of its classification and
\* none of any other row
C10_SectionsHoldExactlyTheClassifiedRows ==
    (mode = "logic1" /\ pc = "done") =>
       \A k \in 1..Len(df.merged) :
          LET row == df.merged[k] IN
          /\ Len(ElementsOf("Entities", row["entityguid"].s))
               = (IF row["entity_match_type"] = VStr("matched_entity") /\ PassesAuxiliaryFilter(row)
                  THEN 1 ELSE 0)
          /\ Len(ElementsOf("Relationships", row["entityguid"].s))
               = (IF row["entity_match_type"] = VStr("related_entity") THEN 1 ELSE 0)

\* what the code does emit: the first qualifying row of each classification
C10_FirstRowOfEachSection ==
    (mode = "logic1" /\ pc = "done") =>
       \A k \in 1..Len(df.merged) :
          LET row == df.merged[k]
              FirstOf(Q(_)) == Q(row) /\ \A j \in 1..(k - 1) : ~Q(df.merged[j])
              Matched(r) == r["entity_match_type"] = VStr("matched_entity")
                            /\ PassesAuxiliaryFilter(r)
              Related(r) == r["entity_match_type"] = VStr("related_entity")
          IN /\ Len(ElementsOf("Entities", row["entityguid"].s))
                  = (IF FirstOf(Matched) THEN 1 ELSE 0)
             /\ Len(ElementsOf("Relationships", row["entityguid"].s))
                  = (IF FirstOf(Related) THEN 1 ELSE 0)

(***************************************************************************)
(* C11.  merge_tables: for every parent table -> child table relationship  *)
(* of child_tables_map whose two tables are loaded, each row of the parent *)
(* table as df_map holds it afterwards carries a nested-list column per    *)
(* child table with exactly the child rows of its GUID, and no parent row  *)
(* is lost.                                                                *)
(***************************************************************************)
\* merge_tables has returned or raised in a run from the data directory
Merged == mode = "load1" /\ pc \notin {"start", "parsed", "detected", "loaded"}

\* the table the folder holds, all its files together
Stored(name) ==
    [cols |-> storage[name][1].cols,
     rows |-> Flatten([i \in 1..Len(storage[name]) |-> storage[name][i].rows])]

IsLoaded(name) == name \in DOMAIN storage /\ storage[name] # <<>>

\* value is a nested list holding one struct per row of rows, in order, whose
\* fields are those of the row (null or the empty list when there is no row)
HoldsRows(value, rows) ==
    IF rows = <<>> THEN value \in {VNone, VList(<<>>)}
    ELSE /\ value.k = "list" /\ Len(value.items) = Len(rows)
         /\ \A j \in 1..Len(rows) :
               /\ value.items[j].k = "dict"
               /\ \A c \in DOMAIN value.items[j].d[1] :
                     c \in DOMAIN rows[j] /\ value.items[j].d[1][c] = rows[j][c]

\* the parent table of df_map has every loaded parent row, each with the
\* column of the child table holding the child rows of its GUID
CarriesChildRows(parent_table, child_table) ==
    LET parent == Stored(parent_table)
        child == Stored(child_table)
        guid_col == guid_col_map[parent_table]
        kept == OGet(df.df_map, parent_table).rows
    IN /\ Len(kept) = Len(parent.rows)
       /\ \A r \in 1..Len(kept) :
             /\ \A c \in parent.cols : kept[r][c] = parent.rows[r][c]
             /\ child_table \in DOMAIN kept[r]
             /\ HoldsRows(kept[r][child_table],
                          SelectSeq(child.rows, LAMBDA x : x[guid_col] = kept[r][guid_col]))

\* C11: after merge_tables every loaded parent table of df_map carries the
\* nested child rows of each of its loaded child tables, and keeps every row
C11_ParentRowsCarryChildRows ==
    Merged =>
       \A i \in 1..Len(child_tables_map) :
          \A k \in 1..Len(child_tables_map[i].val) :
             (IsLoaded(child_tables_map[i].key) /\ IsLoaded(child_tables_map[i].val[k]))
                => CarriesChildRows(child_tables_map[i].key, child_tables_map[i].val[k])

\* what the code leaves: line 242 stores the parent table back as it was
\* loaded, so df_map is the dict load_parquet_data_polars_lazy returned
C11_ParentTablesUnchanged ==
    Merged =>
       \A i \in 1..Len(df.df_map) :
          /\ IsLoaded(df.df_map[i].key)
          /\ df.df_map[i].val = Stored(df.df_map[i].key)

\* the rows of the root table returned are the loaded root rows, none lost
C11_RootRowsPreserved ==
    (Merged /\ "merged" \in DOMAIN df) =>
       /\ Len(df.merged) = Len(Stored("entity").rows)
       /\ \A r \in 1..Len(df.merged) :
             df.merged[r]["entityguid"] = Stored("entity").rows[r]["entityguid"]

(***************************************************************************)
(* C16.  For every set of required tables whose folders are missing,       *)
(* loading returns without error and the non-mock transform runs to        *)
(* completion.                                                             *)
(***************************************************************************)
\* C16: a run from the data directory never ends in an exception, whichever
\* folders are missing
C16_MissingFoldersTolerated == mode \in {"load1", "load2"} => error = NoResult

\* what the code tolerates: loading itself never raises, and the run raises
\* only when a table the transform reads outright is missing
C16_RaisesOnlyWithoutReadTables ==
    (mode \in {"load1", "load2"} /\ error # NoResult) =>
       /\ pc = "raised"
       /\ IF mode = "load1"
          THEN ~IsLoaded("entity") \/ ~IsLoaded("custom_feed_entity_match_type_lookup")
          ELSE \E name \in {"entity", "entity_element_details_consolidated",
                            "custom_feed_entity_match_type_lookup"} : ~IsLoaded(name)

(***************************************************************************)
(* C12.  Generic attribute-table strategy: where a root row has a column   *)
(* value v and an attribute-pair value p under the same lowercase element  *)
(* name, the element renders p when p is non-empty and v when p is null or *)
(* the empty string.                                                       *)
(***************************************************************************)
\* the attribute-pair value of a root row under an element name: <<>> when
\* the row has no pair under it, else <<p>>
PairValue(guid, element) ==
    LET mine == SelectSeq(df["entity_element_details_consolidated"],
                          LAMBDA d : d.entityguid = guid /\ Lower(d.element) = element)
    IN IF mine = <<>> THEN <<>> ELSE << Concat([i \in 1..Len(mine) |-> mine[i].value]) >>

\* the texts of the children with a tag of the one element written for guid
RenderedTexts(guid, tag) ==
    LET es == ElementsOf("Entities", guid.s) IN
    IF Len(es) # 1 THEN << "no single element" >>
    ELSE LET at == WithTag(es[1], tag) IN [i \in 1..Len(at) |-> at[i].text]

\* the root rows of the finished streaming run that hold both a column and a
\* pair under an element name declared below Entity
BothSources(k, element) ==
    /\ mode = "load2" /\ pc = "done"
    /\ k \in 1..Len(entities)
    /\ element \in DOMAIN entities[k]
    /\ OHas(OGet(name_map, EntityPath(constraints)), element)
    /\ PairValue(entities[k]["entityguid"], element) # <<>>

\* C12: the pair value is rendered when it is non-empty, the column value
\* when the pair value is empty
C12_PairWinsIfNonEmpty ==
    \A k \in 1..MaxRows + 1 : \A element \in {"entityalias"} :
       BothSources(k, element) =>
          LET p == PairValue(entities[k]["entityguid"], element)[1]
              v == entities[k][element]
              tag == OGet(OGet(name_map, EntityPath(constraints)), element)
          IN RenderedTexts(entities[k]["entityguid"], tag)
                = << IF p # "" THEN <<p>> ELSE <<Str(v)>> >>

\* what the code does: the pair is assigned over the column whatever it
\* holds (line 434), so an empty pair value leaves the element out
C12_PairAlwaysWins ==
    \A k \in 1..MaxRows + 1 : \A element \in {"entityalias"} :
       BothSources(k, element) =>
          LET p == PairValue(entities[k]["entityguid"], element)[1]
              tag == OGet(OGet(name_map, EntityPath(constraints)), element)
          IN RenderedTexts(entities[k]["entityguid"], tag)
                = (IF p # "" THEN << <<p>> >> ELSE <<>>)

\* a root row without a pair renders its column value
C12_ColumnAloneIsRendered ==
    (mode = "load2" /\ pc = "done") =>
       \A k \in 1..Len(entities) :
          PairValue(entities[k]["entityguid"], "entityalias") = <<>>
             => RenderedTexts(entities[k]["entityguid"], "EntityAlias") = << <<"r">> >>

(***************************************************************************)
(* C13.  populate_children of generate_xml_logic1 at the extension point:  *)
(* one AdditionalSegments wrapper whatever its minOccurs / maxOccurs, one  *)
(* Segment per configured auxiliary table with at least one row, none for  *)
(* an absent, null or empty table, single-field tables first, each group   *)
(* in declared order.                                                      *)
(***************************************************************************)
\* the record holds at least one row of the table
HasRows(rec, table) ==
    table \in DOMAIN rec /\ rec[table].k = "list" /\ rec[table].items # <<>>

\* the configured tables in the fixed order, and those with rows in data_obj
ConfiguredTables == additional_segments_tables_simple \o additional_segments_tables_mutifield

TablesWithRows == SelectSeq(ConfiguredTables, LAMBDA conf : HasRows(data_obj, conf.table))

\* the batch build of a record returned its element
SegmentsBuilt == mode = "fields" /\ pc = "built1" /\ "error" \notin DOMAIN out1

\* the occurrence bounds the schema declares for the extension point
SegmentsOcc == OGet(constraints, Append(EntityPath(constraints), "AdditionalSegments"))

\* C13: exactly one wrapper, holding one Segment per table with rows, in the
\* configuration order
C13_OneWrapperOneSegmentPerTable ==
    SegmentsBuilt =>
       LET wrappers == WithTag(out1, "AdditionalSegments") IN
       /\ Len(wrappers) = 1
       /\ Len(wrappers[1].kids) = Len(TablesWithRows)
       /\ \A i \in 1..Len(TablesWithRows) :
             /\ wrappers[1].kids[i].tag = "Segment"
             /\ wrappers[1].kids[i].attrs = << <<"Type", TablesWithRows[i].type>> >>

\* a wrapper declared minOccurs 2, two single-field tables of which one is
\* null, and both multi-field tables with rows
C13_Witness ==
    /\ SegmentsBuilt
    /\ SegmentsOcc.minOccurs = 2
    /\ HasRows(data_obj, "associatedentity")
    /\ "swiftbicentity" \in DOMAIN data_obj /\ data_obj["swiftbicentity"] = VNone
    /\ HasRows(data_obj, "ihsofacvessels") /\ HasRows(data_obj, "usmsb")
    /\ Len(WithTag(out1, "AdditionalSegments")[1].kids) = 3

\* a table that is absent, one that is null and one with zero rows, under a
\* wrapper declared maxOccurs unbounded
C13_WitnessNoSegment ==
    /\ SegmentsBuilt
    /\ SegmentsOcc.maxOccurs = Inf
    /\ "associatedentity" \notin DOMAIN data_obj
    /\ "swiftbicentity" \in DOMAIN data_obj /\ data_obj["swiftbicentity"] = VNone
    /\ "usmsb" \in DOMAIN data_obj /\ data_obj["usmsb"] = VList(<<>>)
    /\ WithTag(out1, "AdditionalSegments") = << Empty("AdditionalSegments") >>

(***************************************************************************)
(* C14.  Each Segment holds exactly one Record whose GUID and LastUpdated  *)
(* come from the first row; the single-field builder emits one Field (the  *)
(* first row's source_name) whatever the number of rows, the multi-field   *)
(* builder one Field per row, in row order.                                *)
(***************************************************************************)
\* the text of the one child of e with the tag (a marker when not exactly one)
OnlyText(e, tag) ==
    IF Len(WithTag(e, tag)) = 1 THEN WithTag(e, tag)[1].text ELSE << "not exactly one" >>

\* C14: Record header from the first row; one Field for a single-field table,
\* one per row in order for a multi-field table
C14_RecordFromFirstRowFieldPerBuilder ==
    SegmentsBuilt =>
       LET segments == WithTag(out1, "AdditionalSegments")[1].kids IN
       \A i \in 1..Len(TablesWithRows) :
          LET conf == TablesWithRows[i]
              rows == data_obj[conf.table].items
              single == \E k \in 1..Len(additional_segments_tables_simple) :
                           additional_segments_tables_simple[k] = conf
              fields == WithTag(segments[i].kids[1], "Field")
          IN /\ Len(segments[i].kids) = 1
             /\ segments[i].kids[1].tag = "Record"
             /\ segments[i].kids[1].attrs = << <<"GUID", rows[1].d[1][conf.guid_col].s>> >>
             /\ OnlyText(segments[i].kids[1], "LastUpdated") = << rows[1].d[1]["lastupdated"].s >>
             /\ Len(fields) = (IF single THEN 1 ELSE Len(rows))
             /\ \A j \in 1..Len(fields) :
                   OnlyText(fields[j], "DerivedValue") = << rows[j].d[1]["source_name"].s >>

\* a single-field table and a multi-field table, each with the most rows
C14_Witness ==
    /\ SegmentsBuilt
    /\ HasRows(data_obj, "associatedentity") /\ HasRows(data_obj, "usmsb")
    /\ Len(data_obj["associatedentity"].items) = MaxRows
    /\ Len(data_obj["usmsb"].items) = MaxRows
    /\ Len(WithTag(out1, "AdditionalSegments")[1].kids) >= 2

(***************************************************************************)
(* C15.  Streaming build_xml_from_wco_data, for any number of windows      *)
(* including zero: the root and Entities opening tags are written once and *)
(* before any record, the records of a window are all written before the   *)
(* next window is built, and the two closing tags are written once, after  *)
(* the last record.                                                        *)
(***************************************************************************)
\* how many tokens of a kind the file holds for a tag
CountTok(kind, tag) ==
    Cardinality({ i \in 1..Len(file) : file[i].t = kind /\ file[i].v = tag })

RootTag == TagOf(constraints, RootPath(constraints), "Root")

EntitiesTag == TagOf(constraints, Append(RootPath(constraints), "Entities"), "Entities")

\* the file holds, under the Entities element, exactly the subtrees of the
\* first n retained root rows, in order
HoldsFirstRecords(n) ==
    /\ FileClosed # ParseError
    /\ FileClosed.tag = RootTag
    /\ Len(FileClosed.kids) = 1 /\ FileClosed.kids[1].tag = EntitiesTag
    /\ Len(FileClosed.kids[1].kids) = n
    /\ \A j \in 1..n :
          FileClosed.kids[1].kids[j]
             = SubtreeOf(RowDict(entities[j], df["entity_element_details_consolidated"]))

\* C15: open tags once and first, each window written before the next is
\* built, close tags once and last
C15_OpenOnceWindowsInOrderCloseOnce ==
    mode = "logic2" =>
       /\ pc \in {"start", "parsed", "detected"} => file = <<>>
       /\ pc \in {"open", "pool", "attached", "done"} =>
             /\ Len(file) >= 2
             /\ file[1] = Tok("open", RootTag, <<>>) /\ file[2] = Tok("open", EntitiesTag, <<>>)
             /\ CountTok("open", RootTag) = 1 /\ CountTok("open", EntitiesTag) = 1
             /\ CountTok("close", RootTag) = (IF pc = "done" THEN 1 ELSE 0)
             /\ CountTok("close", EntitiesTag) = (IF pc = "done" THEN 1 ELSE 0)
       /\ pc = "open" => HoldsFirstRecords(0)
       \* the tasks of the window at offset window are being built
       /\ pc = "pool" => HoldsFirstRecords(window)
       /\ pc = "attached" => HoldsFirstRecords(window + Len(args))
       /\ pc = "done" =>
             /\ file[Len(file) - 1] = Tok("close", EntitiesTag, <<>>)
             /\ file[Len(file)] = Tok("close", RootTag, <<>>)
             /\ HoldsFirstRecords(Len(entities))

\* a completed run of more than one window
C15_Witness ==
    /\ mode = "logic2" /\ pc = "done"
    /\ Len(entities) > chunk_size
    /\ Len(FileClosed.kids[1].kids) = Len(entities)

\* a completed run of no window
C15_WitnessNoWindow ==
    /\ mode = "logic2" /\ pc = "done"
    /\ entities = <<>>
    /\ Len(file) = 4


(***************************************************************************)
(* C17.  In both variants a failure while a field is processed ends in an  *)
(* error that identifies the path and the field; it is never discarded.    *)
(* The failure modelled is the one a stored value can cause: a text lxml   *)
(* rejects.                                                                *)
(***************************************************************************)
\* EntityGUID holds a text lxml rejects
GuidFails == "entityguid" \in DOMAIN data_obj /\ Rejected(data_obj["entityguid"])

AliasPath == EntityPath(constraints) \o <<"EntityAliases", "EntityAlias">>

\* the rendered items of EntityAlias whose text lxml rejects
AliasStops ==
    IF "entityalias" \in DOMAIN data_obj /\ data_obj["entityalias"].k = "list"
    THEN LET items == data_obj["entityalias"].items
         IN { j \in 1..Used(Len(items), MaxOccursAt(AliasPath)) : Rejected(items[j]) }
    ELSE {}

FieldFails == GuidFails \/ AliasStops # {}

\* r is an error that names the path and the field it arose at
IdentifiesField(r) == {"error", "path", "field"} \subseteq DOMAIN r

\* C17: whenever a field of the record fails, the build of the record ends in
\* an error identifying path and field, in the batch and in the streaming variant
C17_FieldFailureSurfaced ==
    /\ (mode = "fields" /\ pc = "built1" /\ FieldFails) => IdentifiesField(out1)
    /\ (mode = "fields" /\ pc = "built2" /\ FieldFails) => IdentifiesField(out2)

\* C17, batch variant as coded: the ValueError of lxml leaves the build as it
\* was raised, exactly when a field fails
C17_BatchRaisesBareValueError ==
    (mode = "fields" /\ pc = "built1") => (out1 = ValueError <=> FieldFails)

\* C17, streaming variant as coded: the build returns an element; the failing
\* field is left as an empty element and the items after it are not rendered
C17_StreamingDiscardsFailure ==
    (mode = "fields" /\ pc = "built2" /\ FieldFails) =>
        /\ out2.tag = "Entity"
        /\ GuidFails => WithTag(out2, "EntityGUID") = << Empty("EntityGUID") >>
        /\ \A j \in AliasStops :
             (\A h \in AliasStops : j <= h) =>
                 \A a \in 1..Len(WithTag(out2, "EntityAliases")) :
                     LET ks == WithTag(WithTag(out2, "EntityAliases")[a], "EntityAlias")
                     IN Len(ks) = j /\ ks[j] = Empty("EntityAlias")

\* a failing field was processed by the streaming variant and by the batch one
C17_WitnessStreaming == mode = "fields" /\ pc = "built2" /\ GuidFails /\ AliasStops # {}

C17_WitnessBatch == mode = "fields" /\ pc = "built1" /\ AliasStops # {} /\ ~GuidFails


(***************************************************************************)
(* C19.  In both variants a scalar value that is neither null nor the      *)
(* empty string, 0, false and strings that read as JSON included, yields   *)
(* exactly one child element whose text is the string form of the value    *)
(* as stored.                                                              *)
(***************************************************************************)
\* the record holds a scalar for EntityGUID that is neither null nor "", and
\* no field of it fails
GuidScalar ==
    /\ mode = "fields" /\ "entityguid" \in DOMAIN data_obj
    /\ data_obj["entityguid"].k \in {"str", "int", "bool", "float"}
    /\ data_obj["entityguid"] # VStr("") /\ ~FieldFails

\* the texts of the EntityGUID children of e, in order
GuidTexts(e) == [j \in 1..Len(WithTag(e, "EntityGUID")) |-> WithTag(e, "EntityGUID")[j].text]

\* C19: such a scalar yields exactly one EntityGUID element holding str(value)
\* of the stored value, in the batch and in the streaming variant
C19_ScalarRenderedAsStored ==
    /\ (pc = "built1" /\ GuidScalar) => GuidTexts(out1) = << <<Str(data_obj["entityguid"])>> >>
    /\ (pc = "built2" /\ GuidScalar) => GuidTexts(out2) = << <<Str(data_obj["entityguid"])>> >>

\* C19, batch variant as coded: a truthy scalar is rendered as stored, 0 and
\* False are dropped like null and ""
C19_BatchDropsFalsyScalars ==
    (pc = "built1" /\ GuidScalar) =>
        GuidTexts(out1) = IF data_obj["entityguid"] \in {VInt(0), VBool(FALSE)} THEN <<>>
                          ELSE << <<Str(data_obj["entityguid"])>> >>

\* C19, streaming variant as coded: 0 and False are dropped, and a string that
\* reads as JSON is rendered as the parsed value ("true" as True, "1e2" as
\* 100.0, "[1, 2]" as a sequence of two items under the occurrence bounds)
C19_StreamingRendersParsedJson ==
    (pc = "built2" /\ GuidScalar) =>
        LET v    == data_obj["entityguid"]
            full == Append(EntityPath(constraints), "EntityGUID")
        IN GuidTexts(out2) =
             CASE v \in {VInt(0), VBool(FALSE)} -> <<>>
               [] v = VStr("true")   -> << <<"True">> >>
               [] v = VStr("1e2")    -> << <<"100.0">> >>
               [] v = VStr("[1, 2]") ->
                    [j \in 1..(IF 2 < MinOccursAt(full) THEN MinOccursAt(full)
                               ELSE Used(2, MaxOccursAt(full))) |->
                        IF j > 2 THEN <<>> ELSE <<Str(VInt(j))>>]
               [] OTHER              -> << <<Str(v)>> >>


(***************************************************************************)
(* C20.  For a declared child whose key the record lacks and that is not   *)
(* registered in the container map, populate_children creates exactly one  *)
(* element without text and fills it from the same record at the child's   *)
(* path.  A missing key never raises, and every element made this way sits *)
(* at a declared path, one tag longer than its parent's.                   *)
(***************************************************************************)
\* the declared children of the path of t that the record lacks and the
\* container map does not register
MissingAt(t) == { i \in FieldsAt(t.path) :
                    /\ SchemaChildren(t.path)[i].key \notin DOMAIN t.rec
                    /\ SchemaChildren(t.path)[i].key \notin DOMAIN container_map }

\* one element without text, whose own children come from the same record:
\* a grandchild the record holds as the plain string "r" is rendered in it
MissingKeyRule(t) ==
    \A i \in MissingAt(t) :
        LET tag  == SchemaChildren(t.path)[i].val
            full == Append(t.path, tag)
            ks   == WithTag(t.e, tag)
        IN /\ Len(ks) = 1
           /\ ks[1].text = <<>>
           /\ OHas(constraints, full) /\ Len(full) = Len(t.path) + 1
           /\ \A g \in FieldsAt(full) :
                LET gkey == SchemaChildren(full)[g].key
                    gtag == SchemaChildren(full)[g].val
                IN (gkey \in DOMAIN t.rec /\ t.rec[gkey] = VStr("r")) =>
                      WithTag(ks[1], gtag) = << Elem(gtag, <<>>, <<"r">>, <<>>) >>

\* the elements of a built entity that were filled from the root record
FromRoot(out) == IF "error" \in DOMAIN out THEN {}
                 ELSE Populated(out, EntityPath(constraints), data_obj, FALSE)

\* C20: a missing, unregistered key yields exactly one textless element filled
\* from the same record at the child's path, at every depth; the build raises
\* only for a field the record holds
C20_MissingKeyOneChildSameRecord ==
    /\ (mode = "fields" /\ pc = "built1") =>
          /\ \A t \in FromRoot(out1) : MissingKeyRule(t)
          /\ "error" \in DOMAIN out1 => FieldFails
    /\ (mode = "fields" /\ pc = "built2") =>
          /\ \A t \in FromRoot(out2) : MissingKeyRule(t)
          /\ "error" \notin DOMAIN out2

\* a record without entityaddress but with a root-level city: the single
\* EntityAddress element holds the City of the root record
C20_Witness ==
    /\ mode = "fields" /\ pc = "built1" /\ "error" \notin DOMAIN out1
    /\ "entityaddress" \notin DOMAIN data_obj
    /\ "city" \in DOMAIN data_obj
    /\ \E t \in FromRoot(out1) :
         /\ t.e.tag = "Entity" /\ MissingAt(t) # {}
         /\ WithTag(t.e, "EntityAddress")
              = << Elem("EntityAddress", <<>>, <<>>, << Elem("City", <<>>, <<"r">>, <<>>) >>) >>


(***************************************************************************)
(* C18.  parse_xsd records a constraint at a path if and only if the path  *)
(* is the chain of names of nested element declarations that starts at a   *)
(* top-level declaration of the schema, grouping constructs adding nothing *)
(* to it; the NameMap entry of a path lists exactly the children declared  *)
(* under it.                                                               *)
(***************************************************************************)
\* the chains of names of the element declarations nested in node, path being
\* the chain of node itself; complexType / sequence / all / choice are transparent
RECURSIVE ChainsUnder(_, _)
ChainsUnder(node, path) ==
    UNION { LET kid == node.kids[k] IN
            IF kid.kind = "element"
            THEN IF kid.name = <<>> THEN {}
                 ELSE { Append(path, kid.name[1]) } \cup ChainsUnder(kid, Append(path, kid.name[1]))
            ELSE IF kid.kind \in {"complexType", "sequence", "all", "choice"}
            THEN ChainsUnder(kid, path)
            ELSE {} : k \in 1..Len(node.kids) }

\* the chains that start at a top-level declaration of the schema document
DeclaredChains == ChainsUnder(xsd, <<>>)

ConstraintPaths == { constraints[i].key : i \in 1..Len(constraints) }

\* the exact child names a NameMap entry lists
Listed(path) == { SchemaChildren(path)[i].val : i \in 1..Len(SchemaChildren(path)) }

Parsed == mode = "detect" /\ pc \in {"parsed", "detected", "raised"}

\* C18: the constraint paths are exactly the chains from the top-level
\* declarations, and each NameMap entry lists exactly the children declared
\* under its path
C18_ConstraintIffChainFromTopLevel ==
    Parsed =>
       /\ ConstraintPaths = DeclaredChains
       /\ \A i \in 1..Len(name_map) :
             Listed(name_map[i].key)
                = { c[Len(c)] : c \in { d \in DeclaredChains : ParentPath(d) = name_map[i].key } }

\* C18, the half that holds: every chain from a top-level declaration has its
\* constraint, and every child declared under a path is listed at that path
C18_ChainsFromTopLevelRecorded ==
    Parsed =>
       /\ DeclaredChains \subseteq ConstraintPaths
       /\ \A c \in DeclaredChains : c[Len(c)] \in Listed(ParentPath(c))

\* C18, as coded: findall('.//xs:element') hands every element declaration of
\* the document to the top-level loop, so the constraint paths are the chains
\* rooted at every declaration, nested ones included
C18_ChainsRootedAtEveryDeclaration ==
    Parsed =>
       LET every == FindAllElements(xsd) IN
       ConstraintPaths
          = UNION { { <<every[k].name[1]>> } \cup ChainsUnder(every[k], <<every[k].name[1]>>) :
                      k \in 1..Len(every) }


(***************************************************************************)
(* C21.  The multi-table strategy retains a matched row in the entities    *)
(* section only if it has at least one row in every configured auxiliary   *)
(* table, the five single-field and the four multi-field ones; the         *)
(* streaming strategy applies no such filter.                              *)
(***************************************************************************)
\* the multi-table strategy has split the merged table into sections
SectionsSplit == mode = "logic1" /\ "entities" \in DOMAIN wco_data

\* the streaming strategy has selected its root rows
RootsSelected == mode = "logic2" /\ pc \notin {"start", "parsed", "detected", "raised"}

\* the root rows the lookup classifies matched_entity, in table order
MatchedRoots ==
    SelectSeq(df["entity"],
              LAMBDA r : \E i \in 1..Len(df["custom_feed_entity_match_type_lookup"]) :
                 LET l == df["custom_feed_entity_match_type_lookup"][i]
                 IN l.entityguid = r["entityguid"] /\ l.entity_match_type = VStr("matched_entity"))

\* C21: every record retained by the multi-table strategy has rows in every
\* configured auxiliary table; the streaming strategy keeps every matched row
C21_RetainedOnlyWithRowsInEveryTable ==
    /\ SectionsSplit =>
          \A k \in 1..Len(wco_data["entities"]) :
             \A c \in 1..Len(ConfiguredTables) :
                HasRows(wco_data["entities"][k], ConfiguredTables[c].table)
    /\ RootsSelected => entities = MatchedRoots

\* C21, multi-table strategy as coded: a record is retained when it has rows
\* in at least one single-field table and in at least one multi-field table
C21_RetainedWithOneTableOfEachGroup ==
    SectionsSplit =>
       LET OneOfEach(r) ==
              /\ r["entity_match_type"] = VStr("matched_entity")
              /\ \E c \in 1..Len(additional_segments_tables_simple) :
                    HasRows(r, additional_segments_tables_simple[c].table)
              /\ \E c \in 1..Len(additional_segments_tables_mutifield) :
                    HasRows(r, additional_segments_tables_mutifield[c].table)
           kept == SelectSeq(df.merged, OneOfEach)
       IN wco_data["entities"] = (IF kept = <<>> THEN <<>> ELSE << kept[1] >>)

\* C21, streaming strategy: the root rows are the matched rows, unfiltered
C21_StreamingAppliesNoFilter == RootsSelected => entities = MatchedRoots


(***************************************************************************)
(* C22.  A missing child at path P/c gets the placeholder rule (minOccurs  *)
(* empty elements, no recursion) only when P is itself a collection        *)
(* wrapper: c is the sole declared child of P and repeats.  A child of the *)
(* same lowercase name under a parent with several children gets the one   *)
(* empty child that is recursed into.                                      *)
(***************************************************************************)
\* the children of t for the declared child i are as the rule of the parent
\* path requires, when the record lacks the key (wrapper tells which rule)
MissingChildRule(t, i, wrapper) ==
    LET key  == SchemaChildren(t.path)[i].key
        tag  == SchemaChildren(t.path)[i].val
        ks   == WithTag(t.e, tag)
    IN key \notin DOMAIN t.rec =>
          IF wrapper
          THEN /\ Len(ks) = MinOccursAt(Append(t.path, tag))
               /\ \A j \in 1..Len(ks) : IsEmptyElem(ks[j])
          ELSE Len(ks) = 1 /\ ks[1].text = <<>>

\* the tag EntityAlias is declared under two parents
NameShared == \E occ \in OccPairs : xsd = SharedNameSchema(occ)

\* C22: the placeholder rule is applied under a collection wrapper and nowhere
\* else, in every schema, those with one tag under two parents included
C22_PlaceholdersOnlyUnderWrapper ==
    /\ (mode = "fields" /\ pc = "built1") =>
          \A t \in FromRoot(out1) : \A i \in FieldsAt(t.path) :
             MissingChildRule(t, i, SoleRepeatingChild(t.path))
    /\ (mode = "fields" /\ pc = "built2") =>
          \A t \in FromRoot(out2) : \A i \in FieldsAt(t.path) :
             MissingChildRule(t, i, SoleRepeatingChild(t.path))

\* C22, as coded: the rule is chosen by the lowercase name alone, whatever the
\* parent the child is declared under
C22_RuleChosenByNameAlone ==
    /\ (mode = "fields" /\ pc = "built1") =>
          \A t \in FromRoot(out1) : \A i \in FieldsAt(t.path) :
             MissingChildRule(t, i, SchemaChildren(t.path)[i].key \in DOMAIN container_map)
    /\ (mode = "fields" /\ pc = "built2") =>
          \A t \in FromRoot(out2) : \A i \in FieldsAt(t.path) :
             MissingChildRule(t, i, SchemaChildren(t.path)[i].key \in DOMAIN container_map)

\* C22 holds on the schemas that declare each tag under one parent
C22_HoldsWhenEachNameHasOneParent ==
    (mode = "fields" /\ pc \in {"built1", "built2"} /\ ~NameShared) =>
        \A t \in FromRoot(IF pc = "built1" THEN out1 ELSE out2) : \A i \in FieldsAt(t.path) :
           MissingChildRule(t, i, SoleRepeatingChild(t.path))


(***************************************************************************)
(* C23.  Streaming strategy: for every number N of matched root rows the   *)
(* windows [0, W), [W, 2W), ... are taken in increasing order and          *)
(* partition the matched rows: each is built and written exactly once, in  *)
(* source order, and no row of another classification is written.          *)
(***************************************************************************)
\* the entityguid of each Entity element of the file, in file order
WrittenGuids ==
    LET ents == FileClosed.kids[1].kids
    IN [j \in 1..Len(ents) |-> OnlyText(ents[j], "EntityGUID")]

\* the entityguid of the matched root rows i..j, in table order
MatchedGuids(i, j) ==
    [k \in 1..(IF j < i THEN 0 ELSE j - i + 1) |-> << MatchedRoots[i + k - 1]["entityguid"].s >>]

\* the end of the window that starts at offset window
WindowEnd == Smaller(window + chunk_size, Len(MatchedRoots))

\* C23: the window in progress starts at a multiple of W, holds the matched
\* rows of its range, and the file holds the matched rows before it (and the
\* window itself once written); the finished file holds each matched row once,
\* in order, and nothing else
C23_WindowsPartitionMatchedRows ==
    mode = "logic2" =>
       /\ pc \in {"pool", "attached"} =>
             /\ window % chunk_size = 0 /\ window < Len(MatchedRoots)
             /\ Len(args) = WindowEnd - window
             /\ \A k \in 1..Len(args) :
                   args[k]["entityguid"] = MatchedRoots[window + k]["entityguid"]
       /\ pc = "open" => WrittenGuids = <<>>
       /\ pc = "pool" => WrittenGuids = MatchedGuids(1, window)
       /\ pc = "attached" => WrittenGuids = MatchedGuids(1, WindowEnd)
       /\ pc = "done" => WrittenGuids = MatchedGuids(1, Len(MatchedRoots))

\* the windows follow one another in increasing order, W apart
C23_WindowsInIncreasingOrder ==
    [][(mode = "logic2" /\ pc = "attached" /\ pc' = "pool") => window' = window + chunk_size]_vars

\* a finished run of a full window and a partial one, with a row that is not
\* matched between the matched ones
C23_Witness ==
    /\ mode = "logic2" /\ pc = "done"
    /\ Len(MatchedRoots) = chunk_size + 1
    /\ Len(df["entity"]) > Len(MatchedRoots)
    /\ MatchedRoots[Len(MatchedRoots)] = df["entity"][Len(df["entity"])]
    /\ Len(WrittenGuids) = chunk_size + 1

\* a finished run with no matched row
C23_WitnessNoMatchedRow ==
    /\ mode = "logic2" /\ pc = "done"
    /\ df["entity"] # <<>> /\ MatchedRoots = <<>>
    /\ WrittenGuids = <<>>


(***************************************************************************)
(* C24.  A task (_build_single_entity / _build_single_relationship with    *)
(* its populate_children calls) leaves the constraint table, the NameMap,  *)
(* the ContainerMap and its input record as they were, so the tasks of a   *)
(* pool, in any interleaving, each return the subtree they return when run *)
(* alone.                                                                  *)
(***************************************************************************)
\* a pool is at work or has handed its results back
PoolUsed == mode \in {"logic1", "logic1_build", "logic2"} /\ pc \in {"pool", "attached"}

\* the record the i-th task of the pool was submitted with
Submitted(i) ==
    IF mode = "logic2"
    THEN RowDict(entities[window + i], df["entity_element_details_consolidated"])
    ELSE SectionList(wco_data, section)[i]

\* the maps parse_xsd and detect_container_map make of the schema of the runs
ParsedMaps ==
    LET parsed == parse_xsd(BuildSchema)
    IN [c |-> parsed.c, n |-> parsed.n, cm |-> detect_container_map(parsed.c)]

\* the string the i-th task returns when run alone on the maps as parsed
RunAlone(i) ==
    IF mode = "logic2" THEN BuildTask2(Submitted(i), ParsedMaps.c, ParsedMaps.n, ParsedMaps.cm)
    ELSE BuildTask1(section, Submitted(i), ParsedMaps.c, ParsedMaps.n, ParsedMaps.cm)

\* C24: whatever tasks have started and finished, the three maps are as
\* parse_xsd and detect_container_map left them, the submitted records are
\* as submitted, and every finished task returned what it returns alone
C24_TasksLeaveMapsAndRecordsUnchanged ==
    PoolUsed =>
       /\ xsd = BuildSchema
       /\ constraints = ParsedMaps.c
       /\ name_map = ParsedMaps.n
       /\ container_map = ParsedMaps.cm
       /\ \A i \in 1..Len(args) : args[i] = Submitted(i)
       /\ \A i \in DOMAIN results : results[i] = RunAlone(i)

\* no step of a task changes a map or the argument list
C24_TaskStepsKeepTheMaps ==
    [][(TaskStart \/ TaskDone) => UNCHANGED <<constraints, name_map, container_map, args>>]_vars

\* two tasks ran at the same time and the second finished first; the record
\* of the first has no address, so that its task looked up paths without entry
C24_Witness ==
    /\ PoolUsed /\ pc = "pool"
    /\ Len(completed) >= 1 /\ completed[1] = 2 /\ 1 \in running
    /\ 2 \in DOMAIN results
    /\ "entityaddress" \notin DOMAIN args[2]

\* a finished entitydeletes task of the batch strategy: its root path has no
\* entry in any map
C24_WitnessPathWithoutEntry ==
    /\ PoolUsed /\ mode = "logic1_build" /\ section = "entitydeletes"
    /\ completed # <<>>
    /\ ~OHas(name_map, EntityDeletePath(constraints))
    /\ ~OHas(constraints, EntityDeletePath(constraints))


(***************************************************************************)
(* C25.  On a root record without attribute-pair overrides the subtree     *)
(* _build_single_entity of generate_xml_logic2 builds is the subtree       *)
(* _build_single_entity of generate_xml_logic1 builds, the content of      *)
(* AdditionalSegments and the text of every scalar included.               *)
(***************************************************************************)
\* what each module's _build_single_entity returns for the record of the state
Batch1 == build_single_1(data_obj, EntityPath(constraints), "Entity",
                         constraints, name_map, container_map)

Streaming2 == build_single_2(data_obj, EntityPath(constraints),
                             constraints, name_map, container_map)

EntityBuilt == mode = "fields" /\ pc \in {"built1", "built2"}

\* C25: the two variants build the same subtree from the same schema and record
C25_VariantsBuildTheSameSubtree ==
    /\ (mode = "fields" /\ pc = "built1") => out1 = Streaming2
    /\ (mode = "fields" /\ pc = "built2") => out2 = Batch1

\* the record has rows in an auxiliary table, a scalar that reads as JSON of
\* another string form, or a field whose text lxml rejects
Diverging ==
    \/ \E c \in 1..Len(ConfiguredTables) : HasRows(data_obj, ConfiguredTables[c].table)
    \/ /\ "entityguid" \in DOMAIN data_obj
       /\ data_obj["entityguid"] \in {VStr("true"), VStr("1e2"), VStr("[1, 2]")}
    \/ FieldFails

\* C25, as coded: the variants agree on the records that are not of these kinds
C25_AgreeOnOtherRecords == (EntityBuilt /\ ~Diverging) => Batch1 = Streaming2

\* C25, as coded: the streaming variant leaves AdditionalSegments empty where
\* the batch variant fills it
C25_StreamingSegmentsEmpty ==
    (mode = "fields" /\ pc = "built2") =>
        \A j \in 1..Len(out2.kids) :
            out2.kids[j].tag = "AdditionalSegments" => IsEmptyElem(out2.kids[j])

=============================================================================
